---- MODULE Spec2Model ----
(***************************************************************************)
(* Supplier risk dashboard: the geo-temporal risk scoring engine           *)
(* (scoring.py), the geocoder cache it reads (city_geocoder.py), the event *)
(* store (database.py) and the three-layer relevance filter (filtering.py).*)
(*                                                                         *)
(* Numbers are fixed point, so that the products of the code's floats are  *)
(* exact integers:                                                         *)
(*   distance multipliers and seasonal weights  in 1/1000                  *)
(*   severity and time multipliers              in 1/10                    *)
(*   per-event points                           in 1/100000 of a point     *)
(*   breakdown points (round(x, 2))             in 1/100 of a point        *)
(*   final score (round(x, 1))                  in 1/10                    *)
(*   miles                                      in 1/10 of a mile          *)
(*   time                                       in hours                   *)
(* Text is a sequence of words; a word is [s |-> lowercase letters,        *)
(* cap |-> it is written Capitalised with at least three letters].         *)
(***************************************************************************)
EXTENDS Integers, Sequences, FiniteSets, TLC

VARIABLES
    events,      \* the events table: a set of event ids (rows of EventUniverse)
    clock,       \* [hour, month]: datetime.now() and date.today().month
    cityCache,   \* city_geocoder._CITY_CACHE: key -> place, or NoResult
    run1,        \* result of the first scoring call on the current inputs
    run2,        \* result of a second scoring call on the same inputs
    article,     \* the article in hand and the arguments of its filter_article call
    oracle,      \* what the Layer 3 oracle did in that call, if it was asked
    llmCount,    \* filtering._llm_call_count: [date, count]
    verdict,     \* the FilterResult that call returned, or that it raised
    today,       \* time.strftime("%Y-%m-%d"): the current day, as a number
    batch,       \* filter_articles_batch: its progress and its stats
    suppliers,   \* the suppliers table: a sequence of rows
    upload,      \* what the last process_upload call did
    engine,      \* run_scoring_engine: its progress over the rows it read
    eventRows,   \* the events table during a refresh cycle: rows with their dates
    cycle,       \* refresh_all_events: the step it is at
    resolve,     \* the geocode_city call in progress
    answered,    \* what each completed geocode_city call returned, per cache key
    wallClock,   \* time.time(), in tenths of a second
    limiter,     \* city_geocoder._nominatim_lock and _last_nominatim_call
    threads,     \* the threads that call the geocoding service: their position
    issued,      \* the requests sent to the geocoding service so far
    alt,         \* the last call into alternatives.py and its outcome
    detect,      \* the last detect_country_in_text call: its text and its answer
    saver,       \* _CITY_CACHE, the cache file, _cache_lock and the threads that write them
    collect      \* a parallel feed collection: its fetches, its deadline, what it gathered

scoreVars   == <<events, clock, cityCache, run1, run2>>
filterVars  == <<article, oracle, llmCount, verdict, today, batch>>
storeVars   == <<suppliers, upload, engine>>
refreshVars == <<eventRows, cycle>>
cacheVars   == <<resolve, answered>>
limiterVars == <<wallClock, limiter, threads, issued>>
altVars     == <<alt>>
countryVars == <<detect>>
saveVars    == <<saver>>
collectVars == <<collect>>
lateVars    == <<countryVars, saveVars, collectVars>>
vars        == <<events, clock, cityCache, run1, run2,
                 article, oracle, llmCount, verdict, today, batch,
                 suppliers, upload, engine, eventRows, cycle, resolve, answered,
                 wallClock, limiter, threads, issued, alt, detect, saver,
                 collect>>

\* What the actions of one component leave alone.
exceptScoreVars  == <<filterVars, storeVars, refreshVars, cacheVars, limiterVars, altVars, lateVars>>
exceptFilterVars == <<scoreVars, storeVars, refreshVars, cacheVars, limiterVars, altVars, lateVars>>

None == "None"

(***************************************************************************)
(* Bounds of the model.                                                    *)
(***************************************************************************)
MaxEvents == 5
MaxWords == 2
MaxBatch == 2
MaxDays == 2

(***************************************************************************)
(* Generic helpers.                                                        *)
(***************************************************************************)
Min(a, b) == IF a <= b THEN a ELSE b

Abs(a) == IF a < 0 THEN -a ELSE a

\* Python's round(): the nearest multiple of unit, ties to the even one.
\* Returns the count of units.
RoundHalfEven(x, unit) ==
    LET q == x \div unit
        r == x % unit
    IN  IF 2 * r < unit THEN q
        ELSE IF 2 * r > unit THEN q + 1
        ELSE IF q % 2 = 0 THEN q ELSE q + 1

RECURSIVE SumSeq(_)
SumSeq(s) == IF s = <<>> THEN 0 ELSE Head(s) + SumSeq(Tail(s))

\* list[:n]
Take(s, n) == SubSeq(s, 1, Min(n, Len(s)))

\* list.sort(key=..., reverse=True) on pairs <<key, item>>: descending by key,
\* equal keys keep their original order.
SortPairsDesc(s) ==
    LET n == Len(s)
        Before(i) == { j \in 1..n : \/ s[j][1] > s[i][1]
                                    \/ (s[j][1] = s[i][1] /\ j < i) }
    IN  [r \in 1..n |-> s[CHOOSE i \in 1..n : Cardinality(Before(i)) = r - 1]]

(***************************************************************************)
(* Text: words, lowercase substring search.                                *)
(***************************************************************************)
W(s)  == [s |-> s, cap |-> FALSE]
Cw(s) == [s |-> s, cap |-> TRUE]

\* k occurs inside the lowercased word w (Python's `k in w` on one word).
\* Among the words of the model the only proper containments are war/warning,
\* war/warehouse and port/airport.
Inside(k, w) ==
    \/ k = w
    \/ k = "war" /\ w \in {"warning", "warehouse"}
    \/ k = "port" /\ w = "airport"

EndsWith(w, k) == k = w \/ (k = "port" /\ w = "airport")

StartsWith(w, k) == k = w \/ (k = "war" /\ w \in {"warning", "warehouse"})

\* `kw in text.lower()` for a keyword of one or more words joined by blanks.
\* The empty string is in every string.
KwIn(kw, text) ==
    \/ kw = <<>>
    \/ /\ kw # <<>>
       /\ \E i \in 1..(Len(text) - Len(kw) + 1) :
            IF Len(kw) = 1 THEN Inside(kw[1], text[i].s)
            ELSE /\ EndsWith(text[i].s, kw[1])
                 /\ StartsWith(text[i + Len(kw) - 1].s, kw[Len(kw)])
                 /\ \A j \in 2..(Len(kw) - 1) : text[i + j - 1].s = kw[j]

AnyKwIn(kws, text) == \E kw \in kws : KwIn(kw, text)

\* f"{title} {description}"
FullText(title, description) == title \o description

\* A lowercase string as a text (city names, country names).
RECURSIVE AsText(_)
AsText(ws) == IF ws = <<>> THEN <<>> ELSE <<W(Head(ws))>> \o AsText(Tail(ws))

(***************************************************************************)
(* scoring.py: thresholds and tables.                                      *)
(***************************************************************************)
HIGH_RISK_THRESHOLD == 60
MEDIUM_RISK_THRESHOLD == 26
MAX_POINTS_PER_EVENT == 25
MAX_EVENTS_COUNTED == 5

\* One point, and the cap of 25 points, in 1/100000 of a point.
PointUnit == 100 * 1000
PointCap == MAX_POINTS_PER_EVENT * PointUnit

ZONE_DIRECT == 50
ZONE_REGIONAL == 300
ZONE_NATIONAL == 1000
ZONE_CONTINENT == 3000

\* distance_multiplier with one tier out of order.
distance_multiplier_Swapped(miles) ==
    IF miles <= ZONE_DIRECT * 10 THEN 1000
    ELSE IF miles <= ZONE_REGIONAL * 10 THEN 250
    ELSE IF miles <= ZONE_NATIONAL * 10 THEN 600
    ELSE IF miles <= ZONE_CONTINENT * 10 THEN 80
    ELSE 20

distance_multiplier(miles) ==
    IF miles <= ZONE_DIRECT * 10 THEN 1000
    ELSE IF miles <= ZONE_REGIONAL * 10 THEN 600
    ELSE IF miles <= ZONE_NATIONAL * 10 THEN 250
    ELSE IF miles <= ZONE_CONTINENT * 10 THEN 80
    ELSE 20

\* The keywords of each list that the words of the model can spell.
HIGH_SIGNAL_KEYWORDS ==
    { <<"port", "strike">>, <<"earthquake">>, <<"typhoon">>, <<"factory", "fire">>,
      <<"sanctions">>, <<"war">>, <<"flood">> }

MEDIUM_SIGNAL_KEYWORDS ==
    { <<"strike">>, <<"shortage">>, <<"delay">>, <<"tariff">>, <<"storm">>,
      <<"typhoon", "warning">> }

SEVERITY_MULTIPLIER(signal) ==
    CASE signal = "high" -> 10
      [] signal = "medium" -> 5
      [] signal = "low" -> 2
      [] OTHER -> 2

HIGH_SIGNAL_PERSISTENT ==
    { <<"war">>, <<"sanctions">>, <<"embargo">>, <<"blockade">>, <<"tariff">> }

FORECAST_SIGNALS ==
    { <<"warning", "issued">>, <<"typhoon", "warning">>, <<"forecast">>,
      <<"will", "hit">>, <<"strike", "vote">>, <<"within", "days">> }

\* CITY_COORDS: the keys in the order sorted(keys, key=len, reverse=True) visits
\* them, each naming the place its coordinates are.
CITY_KEYS_LONGEST_FIRST ==
    << <<"los", "angeles">>, <<"guangzhou">>, <<"hong", "kong">>, <<"shanghai">>,
       <<"shenzhen">>, <<"houston">>, <<"manila">>, <<"tokyo">> >>

CITY_COORDS(key) ==
    CASE key = <<"los", "angeles">> -> "los angeles"
      [] key = <<"hong", "kong">> -> "hong kong"
      [] key = <<"guangzhou">> -> "guangzhou"
      [] key = <<"shanghai">> -> "shanghai"
      [] key = <<"shenzhen">> -> "shenzhen"
      [] key = <<"houston">> -> "houston"
      [] key = <<"manila">> -> "manila"
      [] key = <<"tokyo">> -> "tokyo"
      [] OTHER -> None

\* haversine_miles between the coordinates of two places, in 1/10 mile,
\* computed by the source's formula from the source's coordinates
\* (Ouagadougou, which the table lacks: 12.3714, -1.5197).
MilesTable(a, b) ==
    CASE a = b -> 0
      [] {a, b} = {"shenzhen", "hong kong"} -> 170
      [] {a, b} = {"shenzhen", "guangzhou"} -> 647
      [] {a, b} = {"shenzhen", "shanghai"} -> 7539
      [] {a, b} = {"shenzhen", "tokyo"} -> 17834
      [] {a, b} = {"shenzhen", "los angeles"} -> 72321
      [] {a, b} = {"shenzhen", "manila"} -> 7117
      [] {a, b} = {"shenzhen", "houston"} -> 83281
      [] {a, b} = {"shenzhen", "ouagadougou"} -> 74552
      [] {a, b} = {"hong kong", "guangzhou"} -> 804
      [] {a, b} = {"hong kong", "shanghai"} -> 7624
      [] {a, b} = {"hong kong", "tokyo"} -> 17869
      [] {a, b} = {"hong kong", "los angeles"} -> 72387
      [] {a, b} = {"hong kong", "manila"} -> 6954
      [] {a, b} = {"hong kong", "houston"} -> 83380
      [] {a, b} = {"hong kong", "ouagadougou"} -> 74677
      [] {a, b} = {"guangzhou", "shanghai"} -> 7530
      [] {a, b} = {"guangzhou", "tokyo"} -> 18010
      [] {a, b} = {"guangzhou", "los angeles"} -> 72363
      [] {a, b} = {"guangzhou", "manila"} -> 7755
      [] {a, b} = {"guangzhou", "houston"} -> 83175
      [] {a, b} = {"guangzhou", "ouagadougou"} -> 73932
      [] {a, b} = {"shanghai", "tokyo"} -> 10901
      [] {a, b} = {"shanghai", "los angeles"} -> 64836
      [] {a, b} = {"shanghai", "manila"} -> 11495
      [] {a, b} = {"shanghai", "houston"} -> 75779
      [] {a, b} = {"shanghai", "ouagadougou"} -> 76076
      [] {a, b} = {"tokyo", "los angeles"} -> 54802
      [] {a, b} = {"tokyo", "manila"} -> 18590
      [] {a, b} = {"tokyo", "houston"} -> 66739
      [] {a, b} = {"tokyo", "ouagadougou"} -> 82601
      [] {a, b} = {"los angeles", "manila"} -> 72969
      [] {a, b} = {"los angeles", "houston"} -> 13709
      [] {a, b} = {"los angeles", "ouagadougou"} -> 71941
      [] {a, b} = {"manila", "houston"} -> 85308
      [] {a, b} = {"manila", "ouagadougou"} -> 80837
      [] {a, b} = {"houston", "ouagadougou"} -> 60228

haversine_miles(a, b) == MilesTable(a, b)

\* str.lower() on the country names of the model.
LowerCountry(c) ==
    CASE c = "China" -> "china"
      [] c = "Philippines" -> "philippines"
      [] c = "United States" -> "united states"
      [] c = "Burkina Faso" -> "burkina faso"
      [] c = "Japan" -> "japan"
      [] c = "Unknown" -> "unknown"
      [] c = "Global" -> "global"
      [] OTHER -> c

\* pycountry + pycountry_convert: the continent code of a country name, None
\* for a name pycountry does not know.
get_continent(country_name) ==
    CASE country_name \in {"China", "Philippines", "Japan"} -> "AS"
      [] country_name = "United States" -> "NA"
      [] country_name = "Burkina Faso" -> "AF"
      [] OTHER -> None

(***************************************************************************)
(* Published dates.  A date string is [fmt, hour]: its format and the hour *)
(* it names.  fmt "iso" is %Y-%m-%dT%H:%M:%SZ; "rfc822" is                 *)
(* "Mon, 05 Oct 2026 12:00:00 GMT", which date_str[:26] cuts before its    *)
(* zone so that no format matches; "empty" is ""; "null" is a NULL column, *)
(* which str() turns into the text "None".                                 *)
(***************************************************************************)
_parse_published(date) ==
    IF date.fmt = "iso" THEN [ok |-> TRUE, hour |-> date.hour]
    ELSE [ok |-> FALSE, hour |-> 0]

is_forecast(title, description) ==
    AnyKwIn(FORECAST_SIGNALS, FullText(title, description))

\* recency_weight that keeps persistent events for ever.
recency_weight_NoCutoff(date, title, description, now) ==
    IF date.fmt = "empty" THEN 5
    ELSE IF is_forecast(title, description) THEN 20
    ELSE IF ~ _parse_published(date).ok THEN 5
    ELSE LET age_hours  == now - _parse_published(date).hour
             persistent == AnyKwIn(HIGH_SIGNAL_PERSISTENT, FullText(title, description))
         IN  IF age_hours < 0 THEN 20
             ELSE IF age_hours <= 48 THEN 10
             ELSE IF age_hours <= 168 THEN (IF persistent THEN 7 ELSE 3)
             ELSE IF persistent THEN 5 ELSE 0

recency_weight(date, title, description, now) ==
    IF date.fmt = "empty" THEN 5
    ELSE IF is_forecast(title, description) THEN 20
    ELSE IF ~ _parse_published(date).ok THEN 5
    ELSE LET age_hours  == now - _parse_published(date).hour
             persistent == AnyKwIn(HIGH_SIGNAL_PERSISTENT, FullText(title, description))
         IN  IF age_hours < 0 THEN 20
             ELSE IF age_hours <= 48 THEN 10
             ELSE IF age_hours <= 168 THEN (IF persistent THEN 7 ELSE 3)
             ELSE IF age_hours <= 720 THEN (IF persistent THEN 5 ELSE 0)
             ELSE 0

classify_signal(title, description) ==
    IF AnyKwIn(HIGH_SIGNAL_KEYWORDS, FullText(title, description)) THEN "high"
    ELSE IF AnyKwIn(MEDIUM_SIGNAL_KEYWORDS, FullText(title, description)) THEN "medium"
    ELSE "low"

(***************************************************************************)
(* city_geocoder.py: the cache-only lookup.  A cache key is                *)
(* <<city words, country>>, both lowercase; a cached value is a place or   *)
(* NoResult (the cached failure, None in the source).                      *)
(***************************************************************************)
NoResult == "NoResult"

CacheGet(cache, key) == IF key \in DOMAIN cache THEN cache[key] ELSE NoResult

geocode_city_fast(cache, city, country) ==
    IF CacheGet(cache, <<city, country>>) # NoResult
    THEN CacheGet(cache, <<city, country>>)
    ELSE IF CacheGet(cache, <<city, "">>) # NoResult
    THEN CacheGet(cache, <<city, "">>)
    ELSE None

(***************************************************************************)
(* extract_city_coords.                                                    *)
(***************************************************************************)
\* re.findall(r'\b([A-Z][a-z]{2,}(?:\s[A-Z][a-z]{2,})?)\b', text): left to
\* right, a capitalised word takes a capitalised word that follows it.
RECURSIVE CapitalisedCandidates(_)
CapitalisedCandidates(text) ==
    IF text = <<>> THEN <<>>
    ELSE IF ~ Head(text).cap THEN CapitalisedCandidates(Tail(text))
    ELSE IF Len(text) >= 2 /\ text[2].cap
         THEN << <<text[1].s, text[2].s>> >> \o CapitalisedCandidates(Tail(Tail(text)))
    ELSE << <<text[1].s>> >> \o CapitalisedCandidates(Tail(text))

SkipWords == { <<"the">>, <<"monday">>, <<"march">>, <<"reuters">>, <<"news">> }

\* The coordinates of the first table city, longest name first, in the text.
RECURSIVE FirstCity(_, _)
FirstCity(keys, text) ==
    IF keys = <<>> THEN None
    ELSE IF KwIn(Head(keys), text) THEN CITY_COORDS(Head(keys))
    ELSE FirstCity(Tail(keys), text)

\* The first capitalised candidate that the cache resolves.
RECURSIVE FirstCached(_, _)
FirstCached(candidates, cache) ==
    IF candidates = <<>> THEN None
    ELSE IF Head(candidates) \notin SkipWords
            /\ geocode_city_fast(cache, Head(candidates), "") # None
         THEN geocode_city_fast(cache, Head(candidates), "")
    ELSE FirstCached(Tail(candidates), cache)

extract_city_coords(text, cache) ==
    IF text = <<>> THEN None
    ELSE IF FirstCity(CITY_KEYS_LONGEST_FIRST, text) # None
         THEN FirstCity(CITY_KEYS_LONGEST_FIRST, text)
    ELSE FirstCached(CapitalisedCandidates(text), cache)

(***************************************************************************)
(* The seasonal risk calendar (the windows that name a country of the      *)
(* model) and get_forward_risk_signals.                                    *)
(***************************************************************************)
AllYear == 1..12

SEASONAL_RISK_CALENDAR ==
    << [countries |-> {"philippines", "taiwan", "japan", "china", "vietnam", "south korea"},
        hasCities |-> FALSE, cities |-> {},
        months |-> 5..11, peak_months |-> {8, 9, 10},
        signal |-> "high", type |-> "typhoon", weight |-> 700],
       [countries |-> {"united states", "mexico", "cuba", "haiti", "dominican republic"},
        hasCities |-> TRUE,
        cities |-> { <<"houston">>, <<"miami">>, <<"new", "orleans">>, <<"savannah">> },
        months |-> 6..11, peak_months |-> {8, 9, 10},
        signal |-> "high", type |-> "hurricane", weight |-> 600],
       [countries |-> {"indonesia", "philippines", "fiji", "australia"},
        hasCities |-> FALSE, cities |-> {},
        months |-> {11, 12, 1, 2, 3, 4}, peak_months |-> {1, 2, 3},
        signal |-> "medium", type |-> "cyclone", weight |-> 500],
       [countries |-> {"china", "vietnam", "thailand", "myanmar", "cambodia", "laos"},
        hasCities |-> FALSE, cities |-> {},
        months |-> 6..9, peak_months |-> {7, 8},
        signal |-> "medium", type |-> "flooding", weight |-> 450],
       [countries |-> {"canada", "united states"},
        hasCities |-> TRUE,
        cities |-> { <<"chicago">>, <<"detroit">>, <<"boston">>, <<"new", "york">> },
        months |-> {12, 1, 2, 3}, peak_months |-> {1, 2},
        signal |-> "low", type |-> "winter", weight |-> 250],
       [countries |-> {"taiwan", "japan", "philippines", "indonesia", "nepal", "pakistan"},
        hasCities |-> FALSE, cities |-> {},
        months |-> AllYear, peak_months |-> {3, 4},
        signal |-> "medium", type |-> "seismic", weight |-> 300],
       [countries |-> {"united states", "canada", "australia"},
        hasCities |-> FALSE, cities |-> {},
        months |-> 6..10, peak_months |-> {8, 9},
        signal |-> "low", type |-> "wildfire", weight |-> 250] >>

\* Whether a calendar window applies to a supplier in a month.
WindowMatches(entry, supplier_country, supplier_city, current_month) ==
    /\ LowerCountry(supplier_country) \in entry.countries
    /\ entry.hasCities =>
          \E c \in entry.cities :
              \/ KwIn(c, AsText(supplier_city))
              \/ KwIn(supplier_city, AsText(c))
    /\ current_month \in entry.months

\* The synthetic event of window k with the configured weight in every month.
SignalOf_FullWeight(k, current_month) ==
    LET entry == SEASONAL_RISK_CALENDAR[k]
    IN  [window |-> k,
         type |-> entry.type,
         severity |-> entry.signal,
         _seasonal_weight |-> entry.weight]

\* The synthetic event of window k: the weight is halved off peak.
SignalOf(k, current_month) ==
    LET entry == SEASONAL_RISK_CALENDAR[k]
    IN  [window |-> k,
         type |-> entry.type,
         severity |-> entry.signal,
         _seasonal_weight |-> IF current_month \in entry.peak_months
                              THEN entry.weight ELSE entry.weight \div 2]

\* The signals of windows k, k+1, ... in calendar order.
RECURSIVE ForwardSignals(_, _, _, _)
ForwardSignals(k, supplier_country, supplier_city, current_month) ==
    IF k > Len(SEASONAL_RISK_CALENDAR) THEN <<>>
    ELSE (IF WindowMatches(SEASONAL_RISK_CALENDAR[k], supplier_country,
                           supplier_city, current_month)
          THEN <<SignalOf(k, current_month)>> ELSE <<>>)
         \o ForwardSignals(k + 1, supplier_country, supplier_city, current_month)

get_forward_risk_signals(supplier_country, supplier_city, current_month) ==
    ForwardSignals(1, supplier_country, supplier_city, current_month)

(***************************************************************************)
(* The inputs of the model: suppliers, clocks and the events that feeds    *)
(* can deliver.                                                            *)
(***************************************************************************)
\* Acme and Sahel are geocoded; Gulf is not, and its city is in CITY_COORDS;
\* Pacific is not, and its city is not.
Suppliers ==
    { [name |-> "Acme",    country |-> "China",         city |-> <<"shenzhen">>,
       coords |-> "shenzhen"],
      [name |-> "Pacific", country |-> "Philippines",   city |-> <<"cebu">>,
       coords |-> None],
      [name |-> "Sahel",   country |-> "Burkina Faso",  city |-> <<"ouagadougou">>,
       coords |-> "ouagadougou"],
      [name |-> "Gulf",    country |-> "United States", city |-> <<"houston">>,
       coords |-> None] }

Clocks == { [hour |-> 2000, month |-> 8], [hour |-> 2000, month |-> 1] }

Iso(age) == [fmt |-> "iso", hour |-> 2000 - age]

EventUniverse ==
    << [title |-> <<Cw("typhoon"), W("warning"), W("issued"), W("for"), Cw("hong"), Cw("kong")>>,
        description |-> <<>>, published |-> Iso(12), country |-> "China"],
       [title |-> <<Cw("factory"), W("fire"), W("in"), Cw("guangzhou")>>,
        description |-> <<>>, published |-> Iso(72), country |-> "China"],
       [title |-> <<Cw("factory"), W("fire"), W("in"), Cw("shanghai")>>,
        description |-> <<>>, published |-> Iso(72), country |-> "China"],
       [title |-> <<Cw("flood"), W("closes"), Cw("tokyo"), W("port")>>,
        description |-> <<>>, published |-> Iso(800), country |-> "Japan"],
       [title |-> <<Cw("shipping"), W("delay"), W("reported")>>,
        description |-> <<Cw("reuters")>>, published |-> Iso(72), country |-> "China"],
       [title |-> <<Cw("storm"), W("forecast")>>,
        description |-> <<>>, published |-> [fmt |-> "empty", hour |-> 0],
        country |-> "Unknown"],
       [title |-> <<Cw("quiet"), W("week"), W("in"), Cw("ouagadougou")>>,
        description |-> <<>>, published |-> Iso(24), country |-> "Burkina Faso"],
       [title |-> <<Cw("war"), W("in"), Cw("tokyo")>>,
        description |-> <<>>, published |-> Iso(800), country |-> "Japan"] >>

EventIds == 1..Len(EventUniverse)

\* ORDER BY published_date DESC compares the stored text: a weekday name sorts
\* above a digit, ISO text sorts by time, "" below both and NULL last.
DateSortKey(date) ==
    CASE date.fmt = "rfc822" -> 1000 * 1000
      [] date.fmt = "iso" -> date.hour
      [] date.fmt = "empty" -> -1
      [] OTHER -> -2

KeyedByDate(ids) ==
    [i \in 1..Len(ids) |-> <<DateSortKey(EventUniverse[ids[i]].published), ids[i]>>]

Seconds(pairs) == [i \in 1..Len(pairs) |-> pairs[i][2]]

\* get_all_events: the rows (ids) of the table, newest date text first, rows
\* of equal date in the order of their ids.
get_all_events(stored) ==
    LET InStore(i) == i \in stored
    IN  Seconds(SortPairsDesc(KeyedByDate(SelectSeq([i \in EventIds |-> i], InStore))))

(***************************************************************************)
(* score_supplier.  An entry of scored_events is                           *)
(* [ref, score, label, miles, signal, dist_mult, time_mult]; ref is the    *)
(* event's id, or minus the calendar index of a seasonal signal.           *)
(***************************************************************************)
\* The supplier's coordinates: geocoded, else the table's for its city.
SupplierCoords(sup) ==
    IF sup.coords # None THEN sup.coords
    ELSE CITY_COORDS(sup.city)

\* round(miles): whole miles, kept in 1/10 mile.
WholeMiles(m) == RoundHalfEven(m, 10) * 10

\* The miles handed to distance_multiplier: score_supplier passes the exact
\* distance, get_score_breakdown passes round(miles).
MilesUsed(m, whole) == IF whole THEN WholeMiles(m) ELSE m

\* Step 1 of the event loop: distance multiplier and proximity label.
\* sameCountry is the multiplier of the national branch.
Proximity(sup, e, cache, sameCountry, whole) ==
    LET event_coords == extract_city_coords(FullText(e.title, e.description), cache)
        sup_at       == SupplierCoords(sup)
    IN  IF event_coords # None /\ sup_at # None
        THEN [label |-> "miles",
              miles |-> MilesUsed(haversine_miles(sup_at, event_coords), whole),
              dist_mult |-> distance_multiplier(
                                MilesUsed(haversine_miles(sup_at, event_coords), whole))]
        ELSE IF LowerCountry(e.country) = LowerCountry(sup.country)
        THEN [label |-> "national", miles |-> -1, dist_mult |-> sameCountry]
        ELSE IF e.country \notin {"Unknown", "Global", ""}
        THEN (IF get_continent(e.country) # None
                 /\ get_continent(e.country) = get_continent(sup.country)
              THEN [label |-> "continent", miles |-> -1, dist_mult |-> 50]
              ELSE [label |-> "distant", miles |-> -1, dist_mult |-> 20])
        ELSE [label |-> "unknown", miles |-> -1, dist_mult |-> 10]

\* min(25 * dist * sev * time, 25) in 1/100000 point.
PointsOf(dist_mult, sev_mult, time_mult) ==
    Min(MAX_POINTS_PER_EVENT * dist_mult * sev_mult * time_mult, PointCap)

\* The inclusion thresholds of the two functions, in 1/100000 point.
SCORE_MIN_POINTS == 3 * (PointUnit \div 10)
BREAKDOWN_MIN_POINTS == PointUnit \div 10

\* One pass of score_supplier's event loop up to the per-event score (0 for
\* an event that recency_weight drops).
ScoreEntry(sup, id, cache, now) ==
    LET e         == EventUniverse[id]
        prox      == Proximity(sup, e, cache, 600, FALSE)
        signal    == classify_signal(e.title, e.description)
        dist_mult == IF prox.label = "national" /\ signal = "high"
                     THEN Min((prox.dist_mult * 14) \div 10, 1000)
                     ELSE prox.dist_mult
        time_mult == recency_weight(e.published, e.title, e.description, now)
    IN  [ref |-> id,
         score |-> PointsOf(dist_mult, SEVERITY_MULTIPLIER(signal), time_mult),
         label |-> prox.label, miles |-> prox.miles, signal |-> signal,
         dist_mult |-> dist_mult, time_mult |-> time_mult]

\* The entry the event appends to scored_events, if any.
ScoredEvent(sup, id, cache, now) ==
    LET entry == ScoreEntry(sup, id, cache, now)
    IN  IF entry.time_mult = 0 THEN <<>>
        ELSE IF entry.score > SCORE_MIN_POINTS THEN <<entry>>
        ELSE <<>>

\* The synthetic event of a seasonal signal and its points.
SeasonalEntry(sig) ==
    [ref |-> -sig.window,
     score |-> PointsOf(sig._seasonal_weight, SEVERITY_MULTIPLIER(sig.severity), 10),
     label |-> "seasonal", miles |-> -1, signal |-> sig.severity,
     dist_mult |-> sig._seasonal_weight, time_mult |-> 10]

ScoredSeasonal(sig) ==
    IF SeasonalEntry(sig).score > SCORE_MIN_POINTS THEN <<SeasonalEntry(sig)>>
    ELSE <<>>

RECURSIVE ScoredSeasonals(_)
ScoredSeasonals(sigs) ==
    IF sigs = <<>> THEN <<>>
    ELSE ScoredSeasonal(Head(sigs)) \o ScoredSeasonals(Tail(sigs))

RECURSIVE ScoredEvents(_, _, _, _)
ScoredEvents(sup, ids, cache, now) ==
    IF ids = <<>> THEN <<>>
    ELSE ScoredEvent(sup, Head(ids), cache, now) \o ScoredEvents(sup, Tail(ids), cache, now)

KeyedByScore(entries) ==
    [i \in 1..Len(entries) |-> <<entries[i].score, entries[i]>>]

RECURSIVE SumScores(_)
SumScores(entries) ==
    IF entries = <<>> THEN 0 ELSE Head(entries).score + SumScores(Tail(entries))

\* min(round(total / 125 * 100, 1), 100), in 1/10: 125 divides 1000, so the
\* score in tenths is total * 8 rounded to whole points.
Normalized(total_score) ==
    Min(RoundHalfEven(total_score * ((100 * 10)
                                     \div (MAX_EVENTS_COUNTED * MAX_POINTS_PER_EVENT)),
                      PointUnit),
        100 * 10)

\* scored_events = [] with a list that outlives the call.
NewScoredEvents_Shared(leftover) == leftover

\* scored_events = []: every call starts from an empty list, whatever an
\* earlier call left behind.
NewScoredEvents(leftover) == <<>>

RefsOf(entries) == [i \in 1..Len(entries) |-> entries[i].ref]

\* "meaningful": the top events with a distance multiplier of at least 0.15.
Meaningful(entries) ==
    LET IsMeaningful(x) == x.dist_mult >= 150
    IN  SelectSeq(entries, IsMeaningful)

\* The tail of score_supplier, from the sorted list on: the top five, their
\* normalised sum, the summary and the events it shows.
ScoreResult(sorted) ==
    [score   |-> Normalized(SumScores(Take(sorted, MAX_EVENTS_COUNTED))),
     summary |-> IF Meaningful(Take(sorted, MAX_EVENTS_COUNTED)) # <<>> THEN "events"
                 ELSE IF sorted # <<>>
                 THEN "No nearby events. Global monitoring active."
                 ELSE "No significant disruption events detected.",
     shown   |-> RefsOf(Take(Meaningful(Take(sorted, MAX_EVENTS_COUNTED)), 3)),
     scored  |-> sorted,
     top     |-> Take(sorted, MAX_EVENTS_COUNTED)]

score_supplier(sup, ids, cache, clk, leftover) ==
    IF ids = <<>>
    THEN [score |-> 0, summary |-> "No events detected.", shown |-> <<>>,
          scored |-> <<>>, top |-> <<>>]
    ELSE ScoreResult(Seconds(SortPairsDesc(KeyedByScore(
             NewScoredEvents(leftover)
             \o ScoredSeasonals(get_forward_risk_signals(sup.country, sup.city, clk.month))
             \o ScoredEvents(sup, ids, cache, clk.hour)))))

classify_risk_level(score) ==
    IF score >= HIGH_RISK_THRESHOLD * 10 THEN "High"
    ELSE IF score >= MEDIUM_RISK_THRESHOLD * 10 THEN "Medium"
    ELSE "Low"

(***************************************************************************)
(* get_score_breakdown.  An entry is [ref, signal, proximity, dist_mult,   *)
(* sev_mult, time_mult, event_score, points (1/100), counted, rank];       *)
(* event_score is the unrounded value the inclusion test reads.            *)
(***************************************************************************)
BreakdownEntry(sup, id, cache, now) ==
    LET e         == EventUniverse[id]
        prox      == Proximity(sup, e, cache, 150, TRUE)
        signal    == classify_signal(e.title, e.description)
        sev_mult  == SEVERITY_MULTIPLIER(signal)
        time_mult == recency_weight(e.published, e.title, e.description, now)
    IN  [ref |-> id, signal |-> signal, proximity |-> prox.label,
         dist_mult |-> prox.dist_mult, sev_mult |-> sev_mult,
         time_mult |-> time_mult,
         event_score |-> PointsOf(prox.dist_mult, sev_mult, time_mult),
         points |-> RoundHalfEven(PointsOf(prox.dist_mult, sev_mult, time_mult),
                                  PointUnit \div 100),
         counted |-> FALSE, rank |-> 0]

BreakdownEvent(sup, id, cache, now) ==
    LET entry == BreakdownEntry(sup, id, cache, now)
    IN  IF entry.time_mult = 0 THEN <<>>
        ELSE IF entry.event_score > BREAKDOWN_MIN_POINTS THEN <<entry>>
        ELSE <<>>

BreakdownSeasonalEntry(sig) ==
    [ref |-> -sig.window, signal |-> sig.severity, proximity |-> "seasonal",
     dist_mult |-> sig._seasonal_weight,
     sev_mult |-> SEVERITY_MULTIPLIER(sig.severity),
     time_mult |-> 10,
     event_score |-> PointsOf(sig._seasonal_weight, SEVERITY_MULTIPLIER(sig.severity), 10),
     points |-> RoundHalfEven(
                    PointsOf(sig._seasonal_weight, SEVERITY_MULTIPLIER(sig.severity), 10),
                    PointUnit \div 100),
     counted |-> FALSE, rank |-> 0]

BreakdownSeasonal(sig) ==
    IF BreakdownSeasonalEntry(sig).event_score > BREAKDOWN_MIN_POINTS
    THEN <<BreakdownSeasonalEntry(sig)>>
    ELSE <<>>

RECURSIVE BreakdownSeasonals(_)
BreakdownSeasonals(sigs) ==
    IF sigs = <<>> THEN <<>>
    ELSE BreakdownSeasonal(Head(sigs)) \o BreakdownSeasonals(Tail(sigs))

RECURSIVE BreakdownEvents(_, _, _, _)
BreakdownEvents(sup, ids, cache, now) ==
    IF ids = <<>> THEN <<>>
    ELSE BreakdownEvent(sup, Head(ids), cache, now)
         \o BreakdownEvents(sup, Tail(ids), cache, now)

KeyedByPoints(entries) ==
    [i \in 1..Len(entries) |-> <<entries[i].points, entries[i]>>]

\* ev["counted"] = i < MAX_EVENTS_COUNTED with the cap off by one.
MarkCounted_OffByOne(sorted) ==
    [i \in 1..Len(sorted) |->
        [sorted[i] EXCEPT !.counted = (i <= MAX_EVENTS_COUNTED + 1), !.rank = i]]

\* for i, ev in enumerate(breakdown): counted = i < 5 (i from 0); rank = i + 1.
MarkCounted(sorted) ==
    [i \in 1..Len(sorted) |->
        [sorted[i] EXCEPT !.counted = (i <= MAX_EVENTS_COUNTED), !.rank = i]]

get_score_breakdown(sup, ids, cache, clk) ==
    IF ids = <<>> THEN <<>>
    ELSE
    LET breakdown ==
            BreakdownSeasonals(get_forward_risk_signals(sup.country, sup.city, clk.month))
            \o BreakdownEvents(sup, ids, cache, clk.hour)
    IN  MarkCounted(Seconds(SortPairsDesc(KeyedByPoints(breakdown))))

(***************************************************************************)
(* The scoring engine as a state machine: the events table is filled and   *)
(* cleared, the geocoder resolves cities into its cache, and a supplier is *)
(* scored (score_supplier and get_score_breakdown) once and then again on  *)
(* the same events at the same clock.                                      *)
(***************************************************************************)
NoRun == [done |-> FALSE]

EmptyCache == [k \in {} |-> NoResult]

SupplierNamed(name) == CHOOSE sup \in Suppliers : sup.name = name

\* The record kept of one scoring call: what score_supplier (res) and
\* get_score_breakdown returned for the supplier, and the cache they read.
RunRecord(name, res, breakdown) ==
    [done      |-> TRUE,
     supplier  |-> name,
     cacheSeen |-> cityCache,
     score     |-> res.score,
     summary   |-> res.summary,
     shown     |-> res.shown,
     scored    |-> res.scored,
     top       |-> res.top,
     breakdown |-> breakdown]

\* One scoring call on the stored events.
ScoringRun(sup, leftover) ==
    RunRecord(sup.name,
              score_supplier(sup, get_all_events(events), cityCache, clock, leftover),
              get_score_breakdown(sup, get_all_events(events), cityCache, clock))

\* insert_event
InsertEvent(id) ==
    /\ ~ run1.done
    /\ id \notin events
    /\ Cardinality(events) < MaxEvents
    /\ events' = events \cup {id}
    /\ UNCHANGED <<clock, cityCache, run1, run2>>
    /\ UNCHANGED exceptScoreVars

\* clear_events
ClearEvents ==
    /\ ~ run1.done
    /\ events # {}
    /\ events' = {}
    /\ UNCHANGED <<clock, cityCache, run1, run2>>
    /\ UNCHANGED exceptScoreVars

\* geocode_city(city, country): a cached key is answered from the cache; a
\* new key is looked up and the answer, a place or the failure, is cached.
GeocodeCity(city, country, answer) ==
    /\ <<city, country>> \notin DOMAIN cityCache
    /\ cityCache' = [k \in DOMAIN cityCache \cup {<<city, country>>} |->
                        IF k = <<city, country>> THEN answer ELSE cityCache[k]]
    /\ UNCHANGED <<events, clock, run1, run2>>
    /\ UNCHANGED exceptScoreVars

\* run_scoring_engine / the drill-down panel: the first scoring of a supplier.
ScoreFirst(sup) ==
    /\ ~ run1.done
    /\ run1' = ScoringRun(sup, <<>>)
    /\ UNCHANGED <<events, clock, cityCache, run2>>
    /\ UNCHANGED exceptScoreVars

\* The same supplier scored again, on the same events at the same clock.
ScoreAgain ==
    /\ run1.done
    /\ ~ run2.done
    /\ run2' = ScoringRun(SupplierNamed(run1.supplier), run1.scored)
    /\ UNCHANGED <<events, clock, cityCache, run1>>
    /\ UNCHANGED exceptScoreVars

\* The caller is done with the results.
Discard ==
    /\ run1.done
    /\ run1' = NoRun
    /\ run2' = NoRun
    /\ UNCHANGED <<events, clock, cityCache>>
    /\ UNCHANGED exceptScoreVars

(***************************************************************************)
(* filtering.py: the three layers.  The keyword sets hold the entries that *)
(* the words of the model can spell.  An oracle behaviour is               *)
(* [kind, is, conf]: kind "exception" (API error or timeout), "non_json",  *)
(* or "answer", a JSON object in which is_supply_chain_disruption is       *)
(* "true", "false" or "missing" and confidence is a number, -1 for         *)
(* missing, -2 for a value int() refuses.                                  *)
(***************************************************************************)
DISRUPTION_KEYWORDS_L1 == { <<"strike">>, <<"war">>, <<"hormuz">> }

SUPPLY_CONTEXT_KEYWORDS_L1 == { <<"port">>, <<"warehouse">>, <<"hormuz">> }

BLOCKLIST_TOPICS == { <<"bitcoin">>, <<"nba", "strike">> }

\* Layer 1 asking for either keyword instead of both.
layer1_keyword_filter_Either(title, description) ==
    \/ AnyKwIn(DISRUPTION_KEYWORDS_L1, FullText(title, description))
    \/ AnyKwIn(SUPPLY_CONTEXT_KEYWORDS_L1, FullText(title, description))

layer1_keyword_filter(title, description) ==
    /\ AnyKwIn(DISRUPTION_KEYWORDS_L1, FullText(title, description))
    /\ AnyKwIn(SUPPLY_CONTEXT_KEYWORDS_L1, FullText(title, description))

layer2_blocklist_filter(title, description) ==
    ~ AnyKwIn(BLOCKLIST_TOPICS, FullText(title, description))

\* The default of the environment variable LLM_DAILY_BUDGET is 500; the model
\* runs with a small budget.
LLM_DAILY_BUDGET == 2

\* _check_llm_budget: the counter after the date check.
BudgetChecked(llm, day) ==
    IF llm.date # day THEN [date |-> day, count |-> 0] ELSE llm

\* The budget check letting one call too many through.
_check_llm_budget_OffByOne(llm, day) ==
    BudgetChecked(llm, day).count <= LLM_DAILY_BUDGET

_check_llm_budget(llm, day) == BudgetChecked(llm, day).count < LLM_DAILY_BUDGET

_increment_llm_count(llm) == [llm EXCEPT !.count = @ + 1]

Unused == [kind |-> "unused", is |-> "missing", conf |-> -1]

Skipped(llm, asked) ==
    [passes |-> TRUE, llm_skipped |-> TRUE, is_supply_chain_disruption |-> FALSE,
     confidence |-> 0, llm |-> llm, asked |-> asked]

\* layer3_llm_filter with min_confidence = 70: (passes, data), the counter it
\* leaves and whether the oracle was asked.
layer3_llm_filter(openai_api_key, o, llm, day) ==
    IF openai_api_key = "" THEN Skipped(llm, FALSE)
    ELSE IF ~ _check_llm_budget(llm, day) THEN Skipped(BudgetChecked(llm, day), FALSE)
    ELSE IF o.kind # "answer" \/ o.conf = -2
         THEN Skipped(_increment_llm_count(BudgetChecked(llm, day)), TRUE)
    ELSE [passes |-> (o.is = "true")
                     /\ (IF o.conf = -1 THEN 0 ELSE o.conf) >= 70,
          llm_skipped |-> FALSE,
          is_supply_chain_disruption |-> (o.is = "true"),
          confidence |-> IF o.conf = -1 THEN 0 ELSE o.conf,
          llm |-> _increment_llm_count(BudgetChecked(llm, day)),
          asked |-> TRUE]

NoVerdict ==
    [called |-> FALSE, raised |-> FALSE, passes |-> FALSE, layer_rejected |-> 0,
     confidence |-> 0, llm_called |-> FALSE]

\* FilterResult(...), layer_rejected 0 standing for None.
FilterResult(passes, layer_rejected, confidence, llm_called) ==
    [called |-> TRUE, raised |-> FALSE, passes |-> passes,
     layer_rejected |-> layer_rejected, confidence |-> confidence,
     llm_called |-> llm_called]

\* The Layer 3 rejection passes llm_called twice to FilterResult, once inside
\* **l3_data and once by name: Python raises TypeError at the call.
Raised ==
    [called |-> TRUE, raised |-> TRUE, passes |-> FALSE, layer_rejected |-> 0,
     confidence |-> 0, llm_called |-> FALSE]

\* filter_article with the blocklist consulted before the keywords.
filter_article_BlocklistFirst(title, description, openai_api_key, use_llm, o, llm, day) ==
    IF ~ layer2_blocklist_filter(title, description)
    THEN [result |-> FilterResult(FALSE, 2, 0, FALSE), llm |-> llm, oracle |-> Unused]
    ELSE IF ~ layer1_keyword_filter(title, description)
    THEN [result |-> FilterResult(FALSE, 1, 0, FALSE), llm |-> llm, oracle |-> Unused]
    ELSE IF use_llm /\ openai_api_key # ""
    THEN LET l3 == layer3_llm_filter(openai_api_key, o, llm, day)
         IN  [result |-> IF l3.llm_skipped THEN FilterResult(TRUE, 0, 50, FALSE)
                         ELSE IF ~ l3.passes THEN Raised
                         ELSE FilterResult(TRUE, 0, l3.confidence, TRUE),
              llm    |-> l3.llm,
              oracle |-> IF l3.asked THEN o ELSE Unused]
    ELSE [result |-> FilterResult(TRUE, 0, 60, FALSE), llm |-> llm, oracle |-> Unused]

\* filter_article: the result (or the exception), the call counter it leaves
\* and what the oracle did if it was asked.
filter_article(title, description, openai_api_key, use_llm, o, llm, day) ==
    IF ~ layer1_keyword_filter(title, description)
    THEN [result |-> FilterResult(FALSE, 1, 0, FALSE), llm |-> llm, oracle |-> Unused]
    ELSE IF ~ layer2_blocklist_filter(title, description)
    THEN [result |-> FilterResult(FALSE, 2, 0, FALSE), llm |-> llm, oracle |-> Unused]
    ELSE IF use_llm /\ openai_api_key # ""
    THEN LET l3 == layer3_llm_filter(openai_api_key, o, llm, day)
         IN  [result |-> IF l3.llm_skipped THEN FilterResult(TRUE, 0, 50, FALSE)
                         ELSE IF ~ l3.passes THEN Raised
                         ELSE FilterResult(TRUE, 0, l3.confidence, TRUE),
              llm    |-> l3.llm,
              oracle |-> IF l3.asked THEN o ELSE Unused]
    ELSE [result |-> FilterResult(TRUE, 0, 60, FALSE), llm |-> llm, oracle |-> Unused]

(***************************************************************************)
(* The filter as a state machine: single filter_article calls, and         *)
(* filter_articles_batch walking its list one article at a time.           *)
(***************************************************************************)
FilterWords == { "strike", "port", "hormuz", "warehouse", "bitcoin", "nba" }

\* The titles: up to MaxWords words.
Titles ==
    UNION { [1..n -> { W(w) : w \in FilterWords }] : n \in 0..MaxWords }

Descriptions == { <<>>, <<W("port")>> }

\* The articles a batch is drawn from: one that clears Layers 1 and 2, one
\* without context, one on the blocklist.
BatchTitles ==
    { <<W("strike"), W("port")>>, <<W("strike")>>, <<W("hormuz"), W("bitcoin")>> }

OracleBehaviours ==
    { [kind |-> "exception", is |-> "missing", conf |-> -1],
      [kind |-> "non_json", is |-> "missing", conf |-> -1] }
    \cup [kind : {"answer"}, is : {"true", "false", "missing"}, conf : {-2, -1, 69, 70}]

\* What the oracle may do in a call: one of its behaviours if the call gets to
\* ask it, nothing otherwise.
OracleCases(title, description, openai_api_key, use_llm, llm, day) ==
    IF filter_article(title, description, openai_api_key, use_llm,
                      [kind |-> "exception", is |-> "missing", conf |-> -1],
                      llm, day).oracle = Unused
    THEN {Unused}
    ELSE OracleBehaviours

\* article.state: "none", nothing in hand; "fetched", an article waits to be
\* classified; "classified", filter_article ran on it with the arguments
\* openai_api_key and use_llm.
NoArticle == [state |-> "none", title |-> <<>>, description |-> <<>>,
              openai_api_key |-> "", use_llm |-> FALSE]

NoBatch ==
    [state |-> "idle", openai_api_key |-> "", use_llm |-> FALSE, left |-> 0,
     total |-> 0, approved |-> 0, rejected_l1 |-> 0, rejected_l2 |-> 0,
     rejected_l3 |-> 0, llm_calls |-> 0]

\* The filter at rest: nothing classified yet.
FilterIdle ==
    /\ article = NoArticle
    /\ oracle = Unused
    /\ llmCount = [date |-> 0, count |-> 0]
    /\ verdict = NoVerdict
    /\ today = 1
    /\ batch = NoBatch

\* The scoring engine at rest, while the filter runs.
ScoreIdle ==
    /\ events = {}
    /\ clock = [hour |-> 2000, month |-> 8]
    /\ cityCache = EmptyCache
    /\ run1 = NoRun
    /\ run2 = NoRun

\* A feed delivers an article.
Fetch(title, description) ==
    /\ batch.state = "idle"
    /\ article.state = "none"
    /\ article' = [NoArticle EXCEPT !.state = "fetched", !.title = title,
                                    !.description = description]
    /\ UNCHANGED <<oracle, llmCount, verdict, today, batch>>
    /\ UNCHANGED exceptFilterVars

\* One call of filter_article outside a batch.
FilterArticle(openai_api_key, use_llm, o) ==
    /\ article.state = "fetched"
    /\ LET r == filter_article(article.title, article.description, openai_api_key,
                               use_llm, o, llmCount, today)
       IN  /\ article' = [article EXCEPT !.state = "classified",
                                         !.openai_api_key = openai_api_key,
                                         !.use_llm = use_llm]
           /\ oracle' = r.oracle
           /\ llmCount' = r.llm
           /\ verdict' = r.result
    /\ UNCHANGED <<today, batch>>
    /\ UNCHANGED exceptFilterVars

\* The caller stores or drops the article and moves on.
Release ==
    /\ batch.state = "idle"
    /\ article.state = "classified"
    /\ article' = NoArticle
    /\ oracle' = Unused
    /\ verdict' = NoVerdict
    /\ UNCHANGED <<llmCount, today, batch>>
    /\ UNCHANGED exceptFilterVars

\* Midnight: time.strftime("%Y-%m-%d") changes.
NextDay ==
    /\ today < MaxDays
    /\ today' = today + 1
    /\ UNCHANGED <<article, oracle, llmCount, verdict, batch>>
    /\ UNCHANGED exceptFilterVars

\* filter_articles_batch is called with n articles: stats starts at zero.
BatchStart(n, openai_api_key, use_llm) ==
    /\ batch.state = "idle"
    /\ article.state = "none"
    /\ batch' = [NoBatch EXCEPT !.state = IF n = 0 THEN "done" ELSE "running",
                                !.openai_api_key = openai_api_key,
                                !.use_llm = use_llm,
                                !.left = n, !.total = n]
    /\ UNCHANGED <<article, oracle, llmCount, verdict, today>>
    /\ UNCHANGED exceptFilterVars

\* stats after one pass of the loop over a result that was returned.
StatsAfter(b, result) ==
    [b EXCEPT !.left = @ - 1,
              !.state = IF b.left = 1 THEN "done" ELSE "running",
              !.llm_calls = IF result.llm_called THEN @ + 1 ELSE @,
              !.approved = IF result.passes THEN @ + 1 ELSE @,
              !.rejected_l1 = IF ~ result.passes /\ result.layer_rejected = 1
                              THEN @ + 1 ELSE @,
              !.rejected_l2 = IF ~ result.passes /\ result.layer_rejected = 2
                              THEN @ + 1 ELSE @,
              !.rejected_l3 = IF ~ result.passes /\ result.layer_rejected = 3
                              THEN @ + 1 ELSE @]

\* One pass of the loop of filter_articles_batch; an exception of
\* filter_article is not caught, so it ends the batch without stats.
BatchStep(title, description, o) ==
    /\ batch.state = "running"
    /\ LET r == filter_article(title, description, batch.openai_api_key,
                               batch.use_llm, o, llmCount, today)
       IN  /\ article' = [state |-> "classified",
                          title |-> title, description |-> description,
                          openai_api_key |-> batch.openai_api_key,
                          use_llm |-> batch.use_llm]
           /\ oracle' = r.oracle
           /\ llmCount' = r.llm
           /\ verdict' = r.result
           /\ batch' = IF r.result.raised THEN [batch EXCEPT !.state = "raised"]
                       ELSE StatsAfter(batch, r.result)
    /\ UNCHANGED today
    /\ UNCHANGED exceptFilterVars

\* The caller takes what the batch returned, or handles its exception.
BatchEnd ==
    /\ batch.state \in {"done", "raised"}
    /\ batch' = NoBatch
    /\ article' = NoArticle
    /\ oracle' = Unused
    /\ verdict' = NoVerdict
    /\ UNCHANGED <<llmCount, today>>
    /\ UNCHANGED exceptFilterVars

(***************************************************************************)
(* The supplier store: upload.py fills the suppliers table, geocoding.py   *)
(* writes the coordinates it finds, run_scoring_engine rescores every row. *)
(* A row of the table is [name, category, city, country, latitude,         *)
(* risk_score, risk_level]; latitude names the place of the coordinates    *)
(* (longitude goes with it) or is None for NULL.                           *)
(***************************************************************************)
MaxRows == 2

\* Rows an uploaded CSV can hold: complete ones, one with an empty Supplier
\* Name and one with an empty Category.
CsvRows ==
    { [name |-> "Acme", category |-> "electronics", city |-> <<"shenzhen">>,
       country |-> "China"],
      [name |-> "Pacific", category |-> "electronics", city |-> <<"cebu">>,
       country |-> "Philippines"],
      [name |-> "", category |-> "apparel", city |-> <<"houston">>,
       country |-> "United States"],
      [name |-> "Delta", category |-> "", city |-> <<"houston">>,
       country |-> "United States"] }

RECURSIVE SeqsUpTo(_, _)
SeqsUpTo(S, n) ==
    IF n = 0 THEN { <<>> }
    ELSE SeqsUpTo(S, n - 1)
         \cup { Append(s, x) : s \in { t \in SeqsUpTo(S, n - 1) : Len(t) = n - 1 },
                               x \in S }

\* The files a user can upload: [columns, risk_level, rows].  columns says
\* whether the five required columns are there; risk_level is the value of a
\* risk_level column the file brings along, None if it has none.
CsvFiles ==
    { [columns |-> FALSE, risk_level |-> None, rows |-> <<>>] }
    \cup { [columns |-> TRUE, risk_level |-> lvl, rows |-> rows] :
               lvl \in {None, "High"}, rows \in SeqsUpTo(CsvRows, MaxRows) \ { <<>> } }

\* validate_csv: the required columns are there, and no Supplier Name and no
\* Country is empty.  Nothing else is looked at.
validate_csv(df) ==
    /\ df.columns
    /\ \A i \in 1..Len(df.rows) : df.rows[i].name # "" /\ df.rows[i].country # ""

\* The row upsert_suppliers inserts for a row of the DataFrame.
StoredRow(row, risk_score, risk_level) ==
    [name |-> row.name, category |-> row.category, city |-> row.city,
     country |-> row.country, latitude |-> None,
     risk_score |-> risk_score, risk_level |-> risk_level]

\* upsert_suppliers: DELETE FROM suppliers, then one INSERT per row with the
\* DataFrame's risk_score and risk_level columns.
upsert_suppliers(df, risk_score, risk_level) ==
    [i \in 1..Len(df.rows) |-> StoredRow(df.rows[i], risk_score, risk_level)]

\* process_upload after validation: the extra columns are set (risk_score
\* 0.0, risk_level "Low", whatever the file held) and the rows are stored.
process_upload_KeepsColumns(df) ==
    upsert_suppliers(df, 0, IF df.risk_level = None THEN "Low" ELSE df.risk_level)

process_upload(df) == upsert_suppliers(df, 0, "Low")

\* update_supplier_geocoding: UPDATE ... WHERE supplier_name = ?
update_supplier_geocoding(table, supplier_name, place) ==
    [i \in 1..Len(table) |->
        IF table[i].name = supplier_name THEN [table[i] EXCEPT !.latitude = place]
        ELSE table[i]]

\* update_supplier_risk: UPDATE ... WHERE supplier_name = ?
update_supplier_risk(table, supplier_name, risk_score, risk_level) ==
    [i \in 1..Len(table) |->
        IF table[i].name = supplier_name
        THEN [table[i] EXCEPT !.risk_score = risk_score, !.risk_level = risk_level]
        ELSE table[i]]

\* What geocode_location can return for a row: nothing, or the coordinates
\* of its city.
GeocodeAnswers(row) ==
    {None} \cup (IF CITY_COORDS(row.city) # None THEN {CITY_COORDS(row.city)} ELSE {})

NaN == "NaN"

\* get_all_suppliers: SELECT * ... ORDER BY risk_score DESC read into a
\* DataFrame.  A NULL latitude is read as None when the whole column is NULL
\* and as NaN when some row has a number.
ReadLatitude(table, i) ==
    IF table[i].latitude # None THEN table[i].latitude
    ELSE IF \E j \in 1..Len(table) : table[j].latitude # None THEN NaN
    ELSE None

get_all_suppliers(table) ==
    Seconds(SortPairsDesc(
        [i \in 1..Len(table) |->
            <<table[i].risk_score, [table[i] EXCEPT !.latitude = ReadLatitude(table, i)]>>]))

\* int(miles) and round(miles) raise ValueError on NaN: a row whose latitude
\* was read as NaN passes "is not None", so the first event whose text names
\* a city ends the call.
ScoringRaises(row, ids, cache) ==
    /\ row.latitude = NaN
    /\ \E i \in 1..Len(ids) :
           extract_city_coords(FullText(EventUniverse[ids[i]].title,
                                        EventUniverse[ids[i]].description), cache) # None

\* The arguments run_scoring_engine hands to score_supplier for a row.
AsSupplier(row) ==
    [name |-> row.name, country |-> row.country, city |-> row.city,
     coords |-> IF row.latitude = NaN THEN None ELSE row.latitude]

NoUpload == [state |-> "none", rows |-> <<>>, next |-> 1]

EngineIdle == [state |-> "idle", left |-> <<>>]

\* The store at rest: no supplier uploaded yet.
StoreIdle ==
    /\ suppliers = <<>>
    /\ upload = NoUpload
    /\ engine = EngineIdle

exceptStoreVars ==
    <<run1, run2, filterVars, refreshVars, cacheVars, limiterVars, altVars, lateVars>>

\* process_upload: a file that fails validate_csv is reported and nothing is
\* stored; any other file replaces the table.
ProcessUpload(df) ==
    /\ upload.next > Len(upload.rows)
    /\ engine.state = "idle"
    /\ IF validate_csv(df)
       THEN /\ suppliers' = process_upload(df)
            /\ upload' = [state |-> "stored", rows |-> df.rows, next |-> 1]
       ELSE /\ upload' = [state |-> "rejected", rows |-> <<>>, next |-> 1]
            /\ UNCHANGED suppliers
    /\ UNCHANGED <<events, clock, cityCache, engine>>
    /\ UNCHANGED exceptStoreVars

\* One pass of the loop of geocode_suppliers over the uploaded rows: the
\* coordinates geocode_location found, if any, are written to the table.
GeocodeSupplier(answer) ==
    /\ upload.state = "stored"
    /\ upload.next <= Len(upload.rows)
    /\ answer \in GeocodeAnswers(upload.rows[upload.next])
    /\ suppliers' = IF answer # None
                    THEN update_supplier_geocoding(suppliers,
                                                   upload.rows[upload.next].name, answer)
                    ELSE suppliers
    /\ upload' = [upload EXCEPT !.next = @ + 1]
    /\ UNCHANGED <<events, clock, cityCache, engine>>
    /\ UNCHANGED exceptStoreVars

\* run_scoring_engine reads the suppliers and the events.
EngineStart ==
    /\ engine.state = "idle"
    /\ engine' = [state |-> IF suppliers = <<>> THEN "done" ELSE "running",
                  left  |-> get_all_suppliers(suppliers)]
    /\ UNCHANGED <<events, clock, cityCache, suppliers, upload>>
    /\ UNCHANGED exceptStoreVars

\* The risk columns after one supplier was scored.
Rescored(row, res) ==
    update_supplier_risk(suppliers, row.name, res.score, classify_risk_level(res.score))

\* One pass of the loop of run_scoring_engine: the row is scored and its
\* risk columns are written; an exception of score_supplier ends the run.
EngineStep ==
    /\ engine.state = "running"
    /\ LET row == Head(engine.left)
       IN  IF ScoringRaises(row, get_all_events(events), cityCache)
           THEN /\ engine' = [engine EXCEPT !.state = "raised"]
                /\ UNCHANGED suppliers
           ELSE /\ suppliers' = Rescored(row, score_supplier(AsSupplier(row),
                                              get_all_events(events), cityCache,
                                              clock, <<>>))
                /\ engine' = [state |-> IF Len(engine.left) = 1 THEN "done"
                                        ELSE "running",
                              left |-> Tail(engine.left)]
    /\ UNCHANGED <<events, clock, cityCache, upload>>
    /\ UNCHANGED exceptStoreVars

\* The run is over: it returned, or its exception reached the caller.
EngineEnd ==
    /\ engine.state \in {"done", "raised"}
    /\ engine' = EngineIdle
    /\ UNCHANGED <<events, clock, cityCache, suppliers, upload>>
    /\ UNCHANGED exceptStoreVars

\* The run is stopped between two suppliers.
Interrupt ==
    /\ engine.state = "running"
    /\ engine' = EngineIdle
    /\ UNCHANGED <<events, clock, cityCache, suppliers, upload>>
    /\ UNCHANGED exceptStoreVars

(***************************************************************************)
(* city_geocoder.geocode_city, step by step, for callers that resolve one  *)
(* city after the other (warm_cache_for_suppliers,                         *)
(* warm_cache_for_article_cities).  A city argument is [words, style]: the *)
(* lowercase words of the name and how the caller wrote it.                *)
(***************************************************************************)
\* The cities and countries the callers ask for.
CityArguments ==
    { [words |-> <<"cebu">>, style |-> "Title"],
      [words |-> <<"cebu">>, style |-> "padded"],
      [words |-> <<"davao">>, style |-> "Title"],
      [words |-> <<>>, style |-> "padded"] }

CountryArguments == { "", "Philippines", "philippines" }

\* f"{city.lower().strip()}|{country.lower().strip()}"
CacheKey(city, country) == <<city.words, LowerCountry(country)>>

\* The place the geocoding service knows for a city.
PlaceOf(city) == IF city.words = <<"cebu">> THEN "cebu" ELSE "davao"

\* The queries geocode_city sends in turn: city and country if a country was
\* given, then the city alone.
QueriesFor(country) ==
    IF country # "" THEN << "city, country", "city" >> ELSE << "city" >>

\* (cached[0], cached[1]) if cached else None
CachedAnswer(cache, key) == IF cache[key] # NoResult THEN cache[key] ELSE None

\* _CITY_CACHE[cache_key] = value
CachePut(cache, key, value) ==
    [k \in DOMAIN cache \cup {key} |-> IF k = key THEN value ELSE cache[k]]

\* The end of geocode_city when no query found the city: the failure is
\* cached.
CacheFailure_Forgets(cache, key) == cache

CacheFailure(cache, key) == CachePut(cache, key, NoResult)

\* No cache key: the call returned before it built one.
NoKey == <<>>

NoResolve == [pc |-> "idle", style |-> None, key |-> NoKey, queries |-> <<>>,
              answer |-> None, place |-> None, lookups |-> 0]

\* The geocoder at rest: no call in progress, none completed.
CacheIdle ==
    /\ resolve = NoResolve
    /\ answered = [k \in {} |-> None]

exceptCacheVars ==
    <<events, clock, run1, run2, filterVars, storeVars, refreshVars, limiterVars,
      altVars, lateVars>>

\* geocode_city is called: an empty city returns None at once, a cached key
\* returns its entry, any other key goes to the geocoding service.
ResolveCall(city, country) ==
    /\ resolve.pc = "idle"
    /\ resolve' =
          IF city.words = <<>>
          THEN [NoResolve EXCEPT !.pc = "returned", !.style = city.style]
          ELSE IF CacheKey(city, country) \in DOMAIN cityCache
          THEN [NoResolve EXCEPT !.pc = "returned", !.style = city.style,
                                 !.key = CacheKey(city, country),
                                 !.answer = CachedAnswer(cityCache,
                                                         CacheKey(city, country))]
          ELSE [NoResolve EXCEPT !.pc = "lookup", !.style = city.style,
                                 !.key = CacheKey(city, country),
                                 !.queries = QueriesFor(country),
                                 !.place = PlaceOf(city)]
    /\ UNCHANGED <<cityCache, answered>>
    /\ UNCHANGED exceptCacheVars

\* One pass of the loop over the queries: _rate_limited_get asks the service;
\* a result is cached and returned, and after the last query without one the
\* failure is cached.
ResolveLookup(found) ==
    /\ resolve.pc = "lookup"
    /\ IF found
       THEN /\ cityCache' = CachePut(cityCache, resolve.key, resolve.place)
            /\ resolve' = [resolve EXCEPT !.pc = "returned", !.answer = resolve.place,
                                          !.lookups = @ + 1]
       ELSE IF Len(resolve.queries) > 1
       THEN /\ resolve' = [resolve EXCEPT !.queries = Tail(@), !.lookups = @ + 1]
            /\ UNCHANGED cityCache
       ELSE /\ cityCache' = CacheFailure(cityCache, resolve.key)
            /\ resolve' = [resolve EXCEPT !.pc = "returned", !.answer = None,
                                          !.queries = <<>>, !.lookups = @ + 1]
    /\ UNCHANGED answered
    /\ UNCHANGED exceptCacheVars

\* The call returns: the caller has its answer.  answered keeps, for each
\* key, what the first call that completed for it returned and how that
\* call wrote the city.
ResolveReturn ==
    /\ resolve.pc = "returned"
    /\ resolve' = NoResolve
    /\ answered' = IF resolve.key = NoKey \/ resolve.key \in DOMAIN answered
                   THEN answered
                   ELSE [k \in DOMAIN answered \cup {resolve.key} |->
                            IF k = resolve.key
                            THEN [answer |-> resolve.answer, style |-> resolve.style]
                            ELSE answered[k]]
    /\ UNCHANGED cityCache
    /\ UNCHANGED exceptCacheVars

(***************************************************************************)
(* The requests to the geocoding service (Nominatim).  Two code paths send *)
(* them: city_geocoder._rate_limited_get, behind _nominatim_lock and       *)
(* _last_nominatim_call, and geocoding.geocode_location, which sleeps one  *)
(* second after each of its own requests.  Time is in tenths of a second.  *)
(***************************************************************************)
MaxTime == 36
MaxRequests == 3

\* time.time() when the process starts: long after _last_nominatim_call = 0.0.
StartTime == 20

\* The threads of the process that geocode: one per session.
CallerThreads == {1, 2}

\* if elapsed < 1.1: time.sleep(1.1 - elapsed)
LimiterInterval == 11

\* time.sleep(1) in geocode_location and geocode_suppliers.
LocationSleep == 10

ThreadIdle == [pc |-> "idle", path |-> None, wake |-> 0]

\* No thread geocodes, no request was sent, the lock is free.
LimiterIdle ==
    /\ wallClock = StartTime
    /\ limiter = [held |-> 0, last |-> 0]
    /\ threads = [t \in CallerThreads |-> ThreadIdle]
    /\ issued = <<>>

exceptLimiterVars ==
    <<scoreVars, filterVars, storeVars, refreshVars, cacheVars, altVars, lateVars>>

\* Time passes; a thread may run late, so nothing holds the clock back.
Tick ==
    /\ wallClock < MaxTime
    /\ wallClock' = wallClock + 1
    /\ UNCHANGED <<limiter, threads, issued>>
    /\ UNCHANGED exceptLimiterVars

\* A thread starts a request on one of the two paths: "city" is geocode_city
\* on a cache miss, "location" is geocode_location.
StartRequest(t, path) ==
    /\ threads[t].pc = "idle"
    /\ Len(issued) < MaxRequests
    /\ threads' = [threads EXCEPT ![t] =
                      [pc |-> IF path = "city" THEN "acquire" ELSE "request",
                       path |-> path, wake |-> 0]]
    /\ UNCHANGED <<wallClock, limiter, issued>>
    /\ UNCHANGED exceptLimiterVars

\* _rate_limited_get: with _nominatim_lock, elapsed is computed and, below
\* 1.1 s, the thread sleeps the rest while it holds the lock.
Acquire(t) ==
    /\ threads[t].pc = "acquire"
    /\ limiter.held = 0
    /\ limiter' = [limiter EXCEPT !.held = t]
    /\ threads' = [threads EXCEPT ![t] =
                      IF wallClock - limiter.last < LimiterInterval
                      THEN [@ EXCEPT !.pc = "sleep",
                                     !.wake = wallClock
                                              + (LimiterInterval - (wallClock - limiter.last))]
                      ELSE [@ EXCEPT !.pc = "stamp"]]
    /\ UNCHANGED <<wallClock, issued>>
    /\ UNCHANGED exceptLimiterVars

\* time.sleep returns, not before the time asked for.
Wake(t) ==
    /\ threads[t].pc = "sleep"
    /\ wallClock >= threads[t].wake
    /\ threads' = [threads EXCEPT ![t] =
                      IF threads[t].path = "city" THEN [@ EXCEPT !.pc = "stamp"]
                      ELSE ThreadIdle]
    /\ UNCHANGED <<wallClock, limiter, issued>>
    /\ UNCHANGED exceptLimiterVars

\* _last_nominatim_call = time.time(), and the lock is released.
Stamp(t) ==
    /\ threads[t].pc = "stamp"
    /\ limiter' = [held |-> 0, last |-> wallClock]
    /\ threads' = [threads EXCEPT ![t] = [@ EXCEPT !.pc = "request"]]
    /\ UNCHANGED <<wallClock, issued>>
    /\ UNCHANGED exceptLimiterVars

\* requests.get: the request goes out.  On the "city" path the call is over;
\* on the "location" path the thread sleeps one second before anything else.
Request(t) ==
    /\ threads[t].pc = "request"
    /\ issued' = Append(issued, wallClock)
    /\ threads' = [threads EXCEPT ![t] =
                      IF threads[t].path = "city" THEN ThreadIdle
                      ELSE [@ EXCEPT !.pc = "sleep", !.wake = wallClock + LocationSleep]]
    /\ UNCHANGED <<wallClock, limiter>>
    /\ UNCHANGED exceptLimiterVars

(***************************************************************************)
(* alternatives.py: countdown detection and alternative suppliers.         *)
(*                                                                         *)
(* Texts are sequences of lowercased words.  Times are hours since         *)
(* 2026-01-01T00:00:00Z.                                                   *)
(***************************************************************************)

\* The body of detect_countdown holds an `except` clause under `if False:`
\* with no `try` it belongs to: the file is not valid Python, compiling it
\* raises SyntaxError, and so does every `import alternatives`.
alternatives_compiles == FALSE

SyntaxError == [status |-> "raised", value |-> "SyntaxError"]

Returned(v) == [status |-> "returned", value |-> v]

\* `from alternatives import find_alternatives, detect_countdown`, then the
\* call: the call is reached only if the import succeeded.
ImportThenCall(v) == IF alternatives_compiles THEN Returned(v) ELSE SyntaxError

\* The number words of the model and their values; -1: not a number.
NumberOf(w) ==
    CASE w = "3" -> 3
      [] w = "10" -> 10
      [] w = "48" -> 48
      [] OTHER -> -1

\* k is the end of the word w (a regular expression may start inside a word).
WordEnds(w, k) ==
    \/ k = w
    \/ k = "in" /\ w = "within"
    \/ k = "strike" /\ w = "airstrike"

\* k is the start of the word w (a regular expression may end inside a word).
WordStarts(w, k) ==
    \/ k = w
    \/ k = "day" /\ w = "days"
    \/ k = "week" /\ w = "weekend"
    \/ k = "expire" /\ w \in {"expires", "expired"}

\* The words of phrase stand at position i of text, the first one possibly
\* as the end of a longer word.
PhraseAt(text, i, phrase) ==
    /\ i >= 1
    /\ i + Len(phrase) - 1 <= Len(text)
    /\ WordEnds(text[i], phrase[1])
    /\ \A j \in 2..Len(phrase) : text[i + j - 1] = phrase[j]

\* [^\d]*(\d+)\s*days? after position i: the first number after i, which
\* has to be followed by day(s); -1 when there is no such match.
DaysAfter(text, i) ==
    LET Numbers == { j \in (i + 1)..Len(text) : NumberOf(text[j]) >= 0 }
    IN  IF Numbers = {} THEN -1
        ELSE LET j == CHOOSE n \in Numbers : \A o \in Numbers : n <= o
             IN  IF j < Len(text) /\ WordStarts(text[j + 1], "day")
                 THEN NumberOf(text[j]) ELSE -1

\* The leftmost match of `<one of phrases>[^\d]*(\d+)\s*days?`: its number,
\* or -1.
PhraseThenDays(text, phrases) ==
    LET Starts == { i \in 1..Len(text) :
                      \E p \in phrases : /\ PhraseAt(text, i, p)
                                         /\ DaysAfter(text, i + Len(p) - 1) >= 0 }
    IN  IF Starts = {} THEN -1
        ELSE LET i == CHOOSE s \in Starts : \A o \in Starts : s <= o
                 p == CHOOSE q \in phrases : /\ PhraseAt(text, i, q)
                                             /\ DaysAfter(text, i + Len(q) - 1) >= 0
             IN  DaysAfter(text, i + Len(p) - 1)

\* The leftmost match of `(\d+)<middle words> <word starting with one of
\* last>`: its number, or -1.
NumberThenWords(text, middle, last) ==
    LET Starts == { i \in 1..Len(text) :
                      /\ NumberOf(text[i]) >= 0
                      /\ \E m \in middle :
                            /\ i + Len(m) + 1 <= Len(text)
                            /\ \A j \in 1..Len(m) : text[i + j] = m[j]
                            /\ \E k \in last : WordStarts(text[i + Len(m) + 1], k) }
    IN  IF Starts = {} THEN -1
        ELSE NumberOf(text[CHOOSE s \in Starts : \A o \in Starts : s <= o])

\* A pattern without a capture group matches somewhere.
PhraseFound(text, phrase, lastStarts) ==
    \E i \in 1..Len(text) :
        /\ PhraseAt(text, i, phrase)
        /\ i + Len(phrase) <= Len(text)
        /\ \E k \in lastStarts : WordStarts(text[i + Len(phrase)], k)

\* COUNTDOWN_PATTERNS[k]: the shape of the regular expression, its words and
\* its confidence, in hundredths.  "days": <phrase>[^\d]*(\d+)\s*days?;
\* "number": (\d+) <middle> <last>; "phrase": <phrase> <last>, no capture
\* group; "word": \b<word>\b, no capture group.
CountdownPattern(k) ==
    CASE k = 1 -> [kind |-> "days", conf |-> 100, last |-> {},
                   phrases |-> {<<"will", "decide", "within">>}]
      [] k = 2 -> [kind |-> "days", conf |-> 90, last |-> {},
                   phrases |-> {<<"within">>}]
      [] k = 3 -> [kind |-> "days", conf |-> 90, last |-> {},
                   phrases |-> {<<"in", "the", "next">>}]
      [] k = 4 -> [kind |-> "days", conf |-> 85, last |-> {},
                   phrases |-> { <<w, "expected">> :
                                   w \in {"decision", "ruling", "verdict",
                                          "announcement"} }]
      [] k = 5 -> [kind |-> "days", conf |-> 90, last |-> {},
                   phrases |-> {<<"deadline">>, <<"ultimatum">>, <<"expire">>,
                                <<"expires">>}]
      [] k = 6 -> [kind |-> "number", conf |-> 85,
                   phrases |-> {<<"day">>, <<"days">>},
                   last |-> {"ultimatum", "deadline", "window", "warning",
                             "period", "countdown"}]
      [] k = 7 -> [kind |-> "phrase", conf |-> 70, phrases |-> {<<"by">>},
                   last |-> {"monday", "tuesday", "wednesday", "thursday",
                             "friday", "saturday", "sunday"}]
      [] k = 8 -> [kind |-> "number", conf |-> 95,
                   phrases |-> {<<"hour", "to">>, <<"hours", "to">>},
                   last |-> {"decide"}]
      [] k = 9 -> [kind |-> "phrase", conf |-> 80,
                   phrases |-> {<<"strike", "within", "the">>}, last |-> {"week"}]
      [] OTHER -> [kind |-> "word", conf |-> 75, phrases |-> {<<"imminent">>},
                   last |-> {}]

COUNTDOWN_PATTERNS == 1..10

\* re.search(pattern, text): whether the pattern matches and the number of
\* its capture group (-1: the pattern has none).
Searched(pattern, text) ==
    CASE pattern.kind = "days" ->
           [group |-> PhraseThenDays(text, pattern.phrases), grouped |-> TRUE]
      [] pattern.kind = "number" ->
           [group |-> NumberThenWords(text, pattern.phrases, pattern.last),
            grouped |-> TRUE]
      [] pattern.kind = "phrase" ->
           [group |-> IF \E ph \in pattern.phrases : PhraseFound(text, ph, pattern.last)
                      THEN 0 ELSE -1,
            grouped |-> FALSE]
      [] OTHER ->
           [group |-> IF \E i \in 1..Len(text) : <<text[i]>> \in pattern.phrases
                      THEN 0 ELSE -1,
            grouped |-> FALSE]

Matched(found, conf) ==
    [matches |-> found.group >= 0,
     group |-> IF found.grouped THEN found.group ELSE -1,
     conf |-> conf]

CountdownMatch(k, text) ==
    Matched(Searched(CountdownPattern(k), text), CountdownPattern(k).conf)

\* `"imminent" in pattern` / `"week" in pattern`, on the pattern's source text.
DefaultDays(k) == IF k = 10 THEN 2 ELSE IF k = 9 THEN 7 ELSE 3

HoursPerDay == 24

\* timedelta.days: whole days, rounded down.
WholeDays(hours) ==
    IF hours >= 0 THEN hours \div HoursPerDay
    ELSE -((-hours + HoursPerDay - 1) \div HoursPerDay)

\* The confidence of the event, from the base confidence (floats that are
\* exact enough for int() to agree with the division of integers).
CountdownConfidence(conf, days_remaining, days_from_pub) ==
    IF days_remaining > days_from_pub THEN (conf * 60) \div 100
    ELSE IF days_remaining > 3 THEN (conf * 75) \div 100
    ELSE IF days_remaining >= 0 THEN (conf * 95) \div 100
    ELSE (conf * 40) \div 100

\* The score multiplier, in tenths.
CountdownMultiplier(days_remaining) ==
    IF days_remaining < 0 THEN 6
    ELSE IF days_remaining = 0 THEN 20
    ELSE IF days_remaining <= 3 THEN 18
    ELSE IF days_remaining <= 7 THEN 15
    ELSE IF days_remaining <= 14 THEN 12
    ELSE 9

\* The CountdownEvent that is returned; the fields about time are kept, with
\* the pattern, the number of days and the base confidence that led to them.
CountdownEvent(k, conf, days_from_pub, pub_date, days_remaining) ==
    [pattern |-> k,
     days_from_pub |-> days_from_pub,
     base_confidence |-> conf,
     published_date |-> pub_date,
     deadline_date |-> pub_date + HoursPerDay * days_from_pub,
     days_remaining |-> days_remaining,
     confidence |-> CountdownConfidence(conf, days_remaining, days_from_pub),
     score_multiplier |-> CountdownMultiplier(days_remaining)]

\* The deadline against the clock.  With an unparsable date the time of a
\* first clock reading stands in for the publication time and the second
\* reading, a moment later, is what the deadline is compared to: one day
\* less than days_from_pub remains.
CountdownFrom(k, conf, days_from_pub, pub, clk) ==
    IF pub = <<>>
    THEN CountdownEvent(k, conf, days_from_pub, clk, days_from_pub - 1)
    ELSE CountdownEvent(k, conf, days_from_pub, pub[1],
                        WholeDays(pub[1] + HoursPerDay * days_from_pub - clk))

\* After the loop over the patterns has stopped at pattern k.
CountdownOf(k, hit, pub, clk) ==
    CountdownFrom(k, hit.conf,
                  IF hit.group >= 0 THEN hit.group ELSE DefaultDays(k), pub, clk)

FirstOf(S) == CHOOSE m \in S : \A o \in S : m <= o

\* The loop over the patterns stops at the first one that matches; without
\* a match the function returns None.
FirstMatch(Matching, text, pub, clk) ==
    IF Matching = {} THEN <<>>
    ELSE << CountdownOf(FirstOf(Matching), CountdownMatch(FirstOf(Matching), text),
                        pub, clk) >>

\* detect_countdown(title, description, published_date_str) when the clock
\* reads clk.  pub is <<the parsed publication time>>, or <<>> when no format
\* parses the string.  The result is <<>> for None or <<the CountdownEvent>>.
detect_countdown(text, pub, clk) ==
    FirstMatch({ k \in COUNTDOWN_PATTERNS : CountdownMatch(k, text).matches },
               text, pub, clk)

\* REGION_RISK_TIER.get(country, 3)
REGION_RISK_TIER(country) ==
    IF country \in {"Germany", "Netherlands", "Japan", "South Korea", "Taiwan",
                    "Singapore", "United States", "Canada", "Australia", "Sweden",
                    "Denmark", "Finland", "Switzerland", "Austria",
                    "Czech Republic", "Poland"} THEN 1
    ELSE IF country \in {"China", "Vietnam", "Malaysia", "Thailand", "Mexico",
                         "Brazil", "India", "Indonesia", "Philippines", "Morocco",
                         "Turkey", "Portugal", "Spain", "Italy", "France",
                         "United Kingdom"} THEN 2
    ELSE IF country \in {"Bangladesh", "Sri Lanka", "Cambodia", "Myanmar",
                         "Pakistan", "Egypt", "Nigeria", "Kenya", "Ethiopia",
                         "Ghana", "South Africa", "Colombia"} THEN 3
    ELSE IF country \in {"Iran", "Iraq", "Libya", "Yemen", "Syria", "Afghanistan",
                         "Sudan", "Haiti", "Venezuela", "Russia", "Belarus",
                         "North Korea", "Ukraine", "Lebanon", "Somalia", "Mali",
                         "Burkina Faso"} THEN 4
    ELSE 3

\* CATEGORY_ALTERNATIVES, in the order of the dictionary: the key, as words,
\* and the countries of its list (the reasons are left out).
CATEGORY_ALTERNATIVES ==
    << [key |-> <<"electronics">>,
        countries |-> <<"Vietnam", "Malaysia", "South Korea", "Taiwan",
                        "Thailand", "Mexico">>],
       [key |-> <<"semiconductor">>,
        countries |-> <<"South Korea", "Taiwan", "Japan", "United States",
                        "Germany">>],
       [key |-> <<"automotive">>,
        countries |-> <<"Mexico", "Germany", "South Korea", "Japan",
                        "Czech Republic", "Poland">>],
       [key |-> <<"apparel">>,
        countries |-> <<"Vietnam", "Cambodia", "Indonesia", "Morocco", "Turkey",
                        "Ethiopia">>],
       [key |-> <<"garment">>,
        countries |-> <<"Vietnam", "Cambodia", "Indonesia", "Turkey", "Morocco">>],
       [key |-> <<"pharma">>,
        countries |-> <<"India", "Germany", "Switzerland", "United States",
                        "Ireland">>],
       [key |-> <<"chemicals">>,
        countries |-> <<"Germany", "Netherlands", "India", "South Korea",
                        "United States">>],
       [key |-> <<"raw", "materials">>,
        countries |-> <<"Australia", "Canada", "Chile", "Brazil", "South Africa">>],
       [key |-> <<"food">>,
        countries |-> <<"Netherlands", "Brazil", "United States", "Argentina",
                        "Australia">>],
       [key |-> <<"logistics">>,
        countries |-> <<"Singapore", "Netherlands", "UAE", "Germany">>],
       [key |-> <<"manufacturing">>,
        countries |-> <<"Vietnam", "Mexico", "Malaysia", "Poland",
                        "Czech Republic">>],
       [key |-> <<"default">>,
        countries |-> <<"Vietnam", "Malaysia", "Mexico", "Germany", "India">>] >>

\* `a in b` for two lowercased category strings, as words: the words of a
\* stand next to each other in b.  The empty string is in every string.
CategoryIn(a, b) ==
    \E i \in 0..(Len(b) - Len(a)) : \A j \in 1..Len(a) : b[i + j] = a[j]

\* category in s_cat or s_cat in category or
\* any(word in s_cat for word in category.split())
RelatedCategory(category, s_cat) ==
    \/ CategoryIn(category, s_cat)
    \/ CategoryIn(s_cat, category)
    \/ \E i \in 1..Len(category) : CategoryIn(<<category[i]>>, s_cat)

Range(s) == { s[i] : i \in DOMAIN s }

Max(a, b) == IF a >= b THEN a ELSE b

\* The filter of a Python list comprehension / loop with `continue`.
RECURSIVE SelectSeqBy(_, _)
SelectSeqBy(s, keep) ==
    IF s = <<>> THEN <<>>
    ELSE (IF Head(s) \in keep THEN <<Head(s)>> ELSE <<>>) \o SelectSeqBy(Tail(s), keep)

\* Step 1 of find_alternatives: the suppliers of the list that are kept, each
\* with its alt_quality (scores in tenths of a point).
InternalCandidates(at_risk, all_suppliers) ==
    LET Kept(s) ==
            /\ s.supplier_name # at_risk.supplier_name
            /\ RelatedCategory(at_risk.category, s.category)
            /\ ~(s.risk_level = "High" \/ s.risk_score >= 600)
        Entry(s) ==
            LET s_risk_tier == REGION_RISK_TIER(s.country)
                alt_quality == (5 - s_risk_tier) * 200 + Max(0, 400 - s.risk_score)
            IN  <<alt_quality,
                  [supplier_name |-> s.supplier_name, country |-> s.country,
                   category |-> s.category, risk_score |-> s.risk_score,
                   risk_level |-> s.risk_level, risk_tier |-> s_risk_tier,
                   alt_quality |-> alt_quality]>>
        kept == SelectSeqBy(all_suppliers, { s \in Range(all_suppliers) : Kept(s) })
    IN  [i \in 1..Len(kept) |-> Entry(kept[i])]

\* Step 2: the first key of CATEGORY_ALTERNATIVES with
\* `key in category or category in key`, else "default".
CategoryKey(category) ==
    LET Hits == { k \in 1..Len(CATEGORY_ALTERNATIVES) :
                    \/ CategoryIn(CATEGORY_ALTERNATIVES[k].key, category)
                    \/ CategoryIn(category, CATEGORY_ALTERNATIVES[k].key) }
    IN  IF Hits = {} THEN Len(CATEGORY_ALTERNATIVES)
        ELSE CHOOSE k \in Hits : \A o \in Hits : k <= o

RegionalCandidates(at_risk) ==
    LET at_risk_tier == REGION_RISK_TIER(at_risk.country)
        listed == CATEGORY_ALTERNATIVES[CategoryKey(at_risk.category)].countries
        kept == SelectSeqBy(listed,
                   { c \in Range(listed) :
                       c # at_risk.country /\ REGION_RISK_TIER(c) <= at_risk_tier })
    IN  [i \in 1..Len(kept) |->
            [country |-> kept[i], risk_tier |-> REGION_RISK_TIER(kept[i])]]

\* Step 3: the urgency; countdown is <<>> for None or <<the CountdownEvent>>.
Urgency(countdown) ==
    IF countdown = <<>> THEN "this_week"
    ELSE IF countdown[1].days_remaining <= 3 THEN "immediate"
    ELSE IF countdown[1].days_remaining <= 10 THEN "this_week"
    ELSE "plan_ahead"

find_alternatives(at_risk, all_suppliers, countdown) ==
    [internal_alternatives |->
        Take(Seconds(SortPairsDesc(InternalCandidates(at_risk, all_suppliers))), 3),
     regional_suggestions |-> Take(RegionalCandidates(at_risk), 3),
     urgency |-> Urgency(countdown)]

\* The article texts the detection is called on.
CountdownTexts ==
    { <<"u.s.", "will", "decide", "within", "10", "days">>,
      <<"strike", "within", "the", "week">>,
      <<"imminent", "strike", "within", "3", "days">>,
      <<"attack", "imminent">>,
      <<"decision", "by", "friday">>,
      <<"48", "hours", "to", "decide">>,
      <<"10", "day", "ultimatum", "expires", "in", "3", "days">>,
      <<"port", "talks", "resume">> }

\* Texts whose countdowns make the search immediate, for this week and
\* planned ahead.
UrgentTexts ==
    { <<"attack", "imminent">>,
      <<"u.s.", "will", "decide", "within", "10", "days">>,
      <<"48", "hours", "to", "decide">> }

\* Publication times: unparsable, or 2026-01-01T00:00:00Z.
PublishedTimes == {<<>>, <<0>>}

\* Clock readings: 1 January 00:00, 6 January 12:00, 13 January 00:00.
AltClocks == {0, 132, 288}

AltSupplier(name, category, country, risk_score) ==
    [supplier_name |-> name, category |-> category, country |-> country,
     risk_score |-> risk_score, risk_level |-> classify_risk_level(risk_score)]

\* The rows of the suppliers table the search runs over, in table order.
AltSuppliers ==
    << AltSupplier("Acme", <<"electronics">>, "China", 720),
       AltSupplier("Pacific", <<"electronics", "components">>, "Philippines", 180),
       AltSupplier("Delta", <<"consumer", "electronics">>, "Vietnam", 450),
       AltSupplier("Hanoi", <<"electronics">>, "Vietnam", 250),
       AltSupplier("Seoul", <<"electronics">>, "South Korea", 50),
       AltSupplier("Nordic", <<"apparel">>, "Germany", 100),
       AltSupplier("Gulf", <<>>, "Iran", 0),
       AltSupplier("Osaka", <<"electronics">>, "Japan", 450),
       AltSupplier("Lagos", <<"toys">>, "Nigeria", 300) >>

NoCall == [op |-> "none", args |-> <<>>, result |-> [status |-> "none", value |-> <<>>]]

AltIdle == alt = NoCall

exceptAltVars ==
    <<scoreVars, filterVars, storeVars, refreshVars, cacheVars, limiterVars, lateVars>>

\* A run of app.py starts: its import of alternatives.
RunApp ==
    /\ alt' = [op |-> "import", args |-> <<>>, result |-> ImportThenCall(<<>>)]
    /\ UNCHANGED exceptAltVars

\* The button "Find Alternatives", first half: the scan for a countdown, in a
\* run of the script that has just done its imports.
DetectCountdown(text, pub, clk) ==
    /\ alt.op = "import"
    /\ alt' = [op |-> "detect_countdown",
               args |-> [text |-> text, pub |-> pub, clk |-> clk],
               result |-> ImportThenCall(detect_countdown(text, pub, clk))]
    /\ UNCHANGED exceptAltVars

\* The button "Find Alternatives", second half: the search.
FindAlternatives(at_risk, all_suppliers, countdown) ==
    /\ alt.op = "import"
    /\ alt' = [op |-> "find_alternatives",
               args |-> [at_risk |-> at_risk, all_suppliers |-> all_suppliers,
                         countdown |-> countdown],
               result |-> ImportThenCall(
                             find_alternatives(at_risk, all_suppliers, countdown))]
    /\ UNCHANGED exceptAltVars

(***************************************************************************)
(* events.py: the refresh cycle and the 21-day cutoff.                     *)
(*                                                                         *)
(* Times are whole days.  A published_date is a record: a date that        *)
(* parses, with its day; the empty string; or a string no format parses.   *)
(***************************************************************************)
MaxStored == 3

\* timedelta(days=21) in safe_insert and purge_old_events(21).
RETENTION_DAYS == 21

\* The days on which a refresh starts.
RefreshDays == {40, 41}

Dated(day) == [kind |-> "date", day |-> day]

NoDate == [kind |-> "empty", day |-> 0]

BadDate == [kind |-> "unparsable", day |-> 0]

\* The dates an article or a weather alert can carry at a refresh on day
\* clk: of that day, exactly at the cutoff, a day older, or no usable date.
DatesAt(clk) ==
    {Dated(clk), Dated(clk - RETENTION_DAYS), Dated(clk - RETENTION_DAYS - 1),
     NoDate, BadDate}

\* Titles: safe_insert returns at once on an empty one.
ArticleTitles == {"", "port strike"}

EventRow(title, event_type, published_date) ==
    [title |-> title, event_type |-> event_type, published_date |-> published_date]

\* database.insert_event: one more row.
insert_event(rows, title, event_type, published_date) ==
    Append(rows, EventRow(title, event_type, published_date))

\* database.clear_events: DELETE FROM events.
clear_events(rows) == <<>>

\* purge_old_events(days): called by refresh_all_events, defined in no file
\* of the sources; taken to delete the rows whose date parses and is more
\* than `days` days old.
purge_old_events(rows, days, clk) ==
    SelectSeq(rows, LAMBDA r : ~(r.published_date.kind = "date"
                                 /\ r.published_date.day < clk - days))

\* safe_insert: nothing without a title; nothing when the date parses and
\* lies before the cutoff; an empty or unparsable date is let through.
safe_insert(rows, title, published_date, clk) ==
    IF title = "" THEN rows
    ELSE IF /\ published_date.kind = "date"
            /\ published_date.day < clk - RETENTION_DAYS
         THEN rows
         ELSE insert_event(rows, title, "news", published_date)

CycleIdle == [step |-> "idle", clk |-> 0, ran |-> FALSE]

RefreshIdle ==
    /\ eventRows = <<>>
    /\ cycle = CycleIdle

exceptRefreshVars ==
    <<scoreVars, filterVars, storeVars, cacheVars, limiterVars, altVars, lateVars>>

\* refresh_all_events starts: clear_events(), purge_old_events(21).
RefreshStart(clk) ==
    /\ cycle.step = "idle"
    /\ eventRows' = purge_old_events(clear_events(eventRows), RETENTION_DAYS, clk)
    /\ cycle' = [step |-> "seeds", clk |-> clk, ran |-> FALSE]
    /\ UNCHANGED exceptRefreshVars

\* Step 1: one seed article goes through safe_insert.
SeedInsert(title, published_date) ==
    /\ cycle.step = "seeds"
    /\ Len(eventRows) < MaxStored
    /\ eventRows' = safe_insert(eventRows, title, published_date, cycle.clk)
    /\ UNCHANGED cycle
    /\ UNCHANGED exceptRefreshVars

\* Steps 2 and 3: the cache is warmed and the live feeds are fetched.
SeedsDone ==
    /\ cycle.step = "seeds"
    /\ cycle' = [cycle EXCEPT !.step = "live"]
    /\ UNCHANGED eventRows
    /\ UNCHANGED exceptRefreshVars

\* Step 4: one approved live article goes through safe_insert.
LiveInsert(title, published_date) ==
    /\ cycle.step = "live"
    /\ Len(eventRows) < MaxStored
    /\ eventRows' = safe_insert(eventRows, title, published_date, cycle.clk)
    /\ UNCHANGED cycle
    /\ UNCHANGED exceptRefreshVars

LiveDone ==
    /\ cycle.step = "live"
    /\ cycle' = [cycle EXCEPT !.step = "weather"]
    /\ UNCHANGED eventRows
    /\ UNCHANGED exceptRefreshVars

\* Step 5: one weather alert is stored with insert_event, whatever the start
\* time of the alert.
WeatherInsert(published_date) ==
    /\ cycle.step = "weather"
    /\ Len(eventRows) < MaxStored
    /\ eventRows' = insert_event(eventRows, "weather alert", "weather", published_date)
    /\ UNCHANGED cycle
    /\ UNCHANGED exceptRefreshVars

\* refresh_all_events returns.
RefreshEnd ==
    /\ cycle.step = "weather"
    /\ cycle' = [cycle EXCEPT !.step = "idle", !.ran = TRUE]
    /\ UNCHANGED eventRows
    /\ UNCHANGED exceptRefreshVars

(***************************************************************************)
(* events.py: detect_country_in_text.  A text is a sequence of words; the  *)
(* names of the two tables are lowercase word sequences.  The tables keep  *)
(* the order of the Python dicts, which `.items()` walks: PORT_CITY_MAP in *)
(* the order of its literal, COUNTRY_MAP the countries of pycountry by     *)
(* name and then the aliases in the order of theirs.                       *)
(***************************************************************************)
\* The cities of PORT_CITY_MAP that the texts of the model can name.
PORT_CITY_MAP ==
    << [name |-> <<"shanghai">>,     country |-> "China"],
       [name |-> <<"tokyo">>,        country |-> "Japan"],
       [name |-> <<"cape", "town">>, country |-> "South Africa"],
       [name |-> <<"houston">>,      country |-> "United States"] >>

\* The names of COUNTRY_MAP that the texts of the model can hold.
COUNTRY_MAP ==
    << [name |-> <<"chad">>,  country |-> "Chad"],
       [name |-> <<"japan">>, country |-> "Japan"],
       [name |-> <<"usa">>,   country |-> "United States"],
       [name |-> <<"us">>,    country |-> "United States"],
       [name |-> <<"iran">>,  country |-> "Iran, Islamic Republic of"] >>

\* len(word) for the words of the two tables.
Letters(word) ==
    CASE word = "shanghai" -> 8
      [] word = "tokyo"    -> 5
      [] word = "cape"     -> 4
      [] word = "town"     -> 4
      [] word = "houston"  -> 7
      [] word = "chad"     -> 4
      [] word = "japan"    -> 5
      [] word = "usa"      -> 3
      [] word = "us"       -> 2
      [] word = "iran"     -> 4

\* len(name): the letters of its words and the blanks between them.
RECURSIVE NameLen(_)
NameLen(name) ==
    IF name = <<>> THEN 0
    ELSE Letters(Head(name)) + (IF Len(name) > 1 THEN 1 ELSE 0) + NameLen(Tail(name))

\* The first entry from index k on whose name is in the text (and, with
\* longNamesOnly, is longer than 3 characters): its country in a 1-tuple, or
\* the empty tuple.
RECURSIVE FirstNamed(_, _, _, _)
FirstNamed(table, k, text, longNamesOnly) ==
    IF k > Len(table) THEN <<>>
    ELSE IF /\ longNamesOnly => NameLen(table[k].name) > 3
            /\ KwIn(table[k].name, text)
    THEN <<table[k].country>>
    ELSE FirstNamed(table, k + 1, text, longNamesOnly)

detect_country_in_text(text) ==
    IF text = <<>> THEN "Unknown"
    ELSE IF FirstNamed(PORT_CITY_MAP, 1, text, FALSE) # <<>>
    THEN FirstNamed(PORT_CITY_MAP, 1, text, FALSE)[1]
    ELSE IF FirstNamed(COUNTRY_MAP, 1, text, TRUE) # <<>>
    THEN FirstNamed(COUNTRY_MAP, 1, text, TRUE)[1]
    ELSE "Unknown"

\* The words of the texts, and the texts of at most MaxMentions words.
MaxMentions == 3

HeadlineWords ==
    { Cw("shanghai"), Cw("tokyo"), Cw("cape"), Cw("town"), Cw("japan"),
      Cw("us"), Cw("iran"), W("strike") }

Headlines == UNION { [1..n -> HeadlineWords] : n \in 0..MaxMentions }

NoDetection == [state |-> "none", text |-> <<>>, country |-> ""]

CountryIdle == detect = NoDetection


exceptCountryVars ==
    <<scoreVars, filterVars, storeVars, refreshVars, cacheVars, limiterVars, altVars,
      saveVars, collectVars>>

\* An article's text is handed to detect_country_in_text.
DetectCountry(text) ==
    /\ detect.state = "none"
    /\ detect' = [state |-> "done", text |-> text,
                  country |-> detect_country_in_text(text)]
    /\ UNCHANGED exceptCountryVars

\* The caller stores the country with the event and takes the next article.
NextArticle ==
    /\ detect.state = "done"
    /\ detect' = NoDetection
    /\ UNCHANGED exceptCountryVars

(***************************************************************************)
(* city_geocoder.py: the write path of geocode_city under threads.  Each   *)
(* thread that missed the cache stores its key in _CITY_CACHE and calls    *)
(* _save_cache, which takes _cache_lock, opens the file for writing (the   *)
(* file is empty from then on) and lets json.dump walk the dict.  The      *)
(* store is not under the lock.  A dict that grows while json.dump walks   *)
(* it makes the walk raise RuntimeError, unless the walk was already over: *)
(* both outcomes are kept.  _save_cache swallows the exception.            *)
(***************************************************************************)
MaxSavers == 2

SaveThreads == 1..MaxSavers

CityKeys == {"odesa|ukraine", "cebu|philippines", "lima|peru"}

\* The cache file: a whole JSON object with these keys, or a file cut short.
Whole(keys) == [state |-> "whole", keys |-> keys]
CutShort == [state |-> "partial", keys |-> {}]

AtRest == [at |-> "idle", key |-> "", seen |-> {}]

SaveIdle ==
    saver = [cache |-> {}, file |-> Whole({}), lock |-> 0,
             thread |-> [t \in SaveThreads |-> AtRest],
             failed |-> FALSE]


exceptSaveVars ==
    <<scoreVars, filterVars, storeVars, refreshVars, cacheVars, limiterVars, altVars,
      countryVars, collectVars>>

\* geocode_city: the key is not in _CITY_CACHE; the geocoding service is
\* asked and answers (a place or nothing: either is cached).
GeocodeMiss(t, cache_key) ==
    /\ saver.thread[t].at = "idle"
    /\ cache_key \notin saver.cache
    /\ saver' = [saver EXCEPT !.thread[t] = [at |-> "fetched", key |-> cache_key,
                                             seen |-> {}]]
    /\ UNCHANGED exceptSaveVars

\* _CITY_CACHE[cache_key] = ...
StoreInCache(t) ==
    /\ saver.thread[t].at = "fetched"
    /\ saver' = [saver EXCEPT !.cache = @ \cup {saver.thread[t].key},
                              !.thread[t].at = "stored"]
    /\ UNCHANGED exceptSaveVars

\* _save_cache: with _cache_lock: with open(CACHE_FILE, "w"); json.dump
\* starts its walk of the dict.
SaveBegin(t) ==
    /\ saver.thread[t].at = "stored"
    /\ saver.lock = 0
    /\ saver' = [saver EXCEPT !.lock = t,
                              !.file = CutShort,
                              !.thread[t].at = "dumping",
                              !.thread[t].seen = saver.cache]
    /\ UNCHANGED exceptSaveVars

\* What json.dump can leave behind, and whether it raised: the dict as it
\* was walked, or, when the dict grew meanwhile, also an exception and the
\* file cut short.
DumpOutcomes(seen, cache) ==
    IF cache = seen THEN { [file |-> Whole(seen), raised |-> FALSE] }
    ELSE { [file |-> Whole(seen), raised |-> FALSE],
           [file |-> CutShort, raised |-> TRUE] }

\* json.dump ends, the file is closed and _cache_lock released; an exception
\* is swallowed and geocode_city returns.
SaveEnd(t, outcome) ==
    /\ saver.thread[t].at = "dumping"
    /\ outcome \in DumpOutcomes(saver.thread[t].seen, saver.cache)
    /\ saver' = [saver EXCEPT !.lock = 0,
                              !.file = outcome.file,
                              !.failed = @ \/ outcome.raised,
                              !.thread[t] = AtRest]
    /\ UNCHANGED exceptSaveVars

(***************************************************************************)
(* The parallel feed collections: fetch_all_global_parallel (as_completed  *)
(* with a timeout), _get_live_baseline_articles (a polling loop up to a    *)
(* wall time) and the live step of refresh_all_events (result(timeout) on  *)
(* each future in turn).  All three submit their fetches to a              *)
(* ThreadPoolExecutor used as a context manager, whose exit is             *)
(* shutdown(wait=True): it returns when every submitted fetch has ended.   *)
(* A fetch stands for its articles.                                        *)
(***************************************************************************)
MaxFeeds == 2

Feeds == 1..MaxFeeds

CollectorKinds == {"as_completed", "poll", "result"}

Finished(c) == { f \in Feeds : c.fetch[f] = "finished" }

CollectIdle ==
    collect = [kind |-> "none", step |-> "idle",
               fetch |-> [f \in Feeds |-> "pending"],
               got |-> {}, next |-> 1, expired |-> FALSE, before |-> {},
               raised |-> FALSE, result |-> {}]

LateIdle == CountryIdle /\ SaveIdle /\ CollectIdle

exceptCollectVars ==
    <<scoreVars, filterVars, storeVars, refreshVars, cacheVars, limiterVars, altVars,
      countryVars, saveVars>>

\* The fetches are submitted to the pool.
StartCollection(kind) ==
    /\ collect.step = "idle"
    /\ collect.kind = "none"
    /\ collect' = [collect EXCEPT !.kind = kind, !.step = "collecting"]
    /\ UNCHANGED exceptCollectVars

\* A worker thread ends its fetch.
FetchFinishes(f) ==
    /\ collect.step \in {"collecting", "joining"}
    /\ collect.fetch[f] = "pending"
    /\ collect' = [collect EXCEPT !.fetch[f] = "finished"]
    /\ UNCHANGED exceptCollectVars

\* The wall-clock deadline passes; before is what had finished by then.
DeadlineExpires ==
    /\ collect.step = "collecting"
    /\ ~ collect.expired
    /\ collect' = [collect EXCEPT !.expired = TRUE, !.before = Finished(collect)]
    /\ UNCHANGED exceptCollectVars

\* fetch_all_global_parallel: as_completed yields a finished future and its
\* articles are appended.
YieldCompleted(f) ==
    /\ collect.kind = "as_completed"
    /\ collect.step = "collecting"
    /\ f \in Finished(collect) \ collect.got
    /\ collect' = [collect EXCEPT !.got = @ \cup {f}]
    /\ UNCHANGED exceptCollectVars

\* as_completed has yielded every future: the loop ends and the with block
\* is left.
AllYielded ==
    /\ collect.kind = "as_completed"
    /\ collect.step = "collecting"
    /\ collect.got = Feeds
    /\ collect' = [collect EXCEPT !.step = "joining"]
    /\ UNCHANGED exceptCollectVars

\* as_completed finds the timeout over with futures still pending and raises
\* TimeoutError: it is raised by the for statement, outside the try around
\* future.result(), and leaves the with block.
TimeoutRaised ==
    /\ collect.kind = "as_completed"
    /\ collect.step = "collecting"
    /\ collect.expired
    /\ Finished(collect) # Feeds
    /\ collect' = [collect EXCEPT !.raised = TRUE, !.step = "joining"]
    /\ UNCHANGED exceptCollectVars

\* _get_live_baseline_articles: one round of the loop, entered while futures
\* are pending and the wall time is ahead: the futures that are done are
\* gathered.
PollDone ==
    /\ collect.kind = "poll"
    /\ collect.step = "collecting"
    /\ ~ collect.expired
    /\ collect.got # Feeds
    /\ Finished(collect) \ collect.got # {}
    /\ collect' = [collect EXCEPT !.got = Finished(collect)]
    /\ UNCHANGED exceptCollectVars

\* The loop ends, nothing pending or the wall time reached; what is pending
\* is cancelled (a running fetch cannot be) and the with block is left.
PollOver ==
    /\ collect.kind = "poll"
    /\ collect.step = "collecting"
    /\ collect.got = Feeds \/ collect.expired
    /\ collect' = [collect EXCEPT !.step = "joining"]
    /\ UNCHANGED exceptCollectVars

\* refresh_all_events: f.result(timeout=remaining) on the next future returns
\* its articles.
ResultReturned ==
    /\ collect.kind = "result"
    /\ collect.step = "collecting"
    /\ collect.next <= MaxFeeds
    /\ collect.fetch[collect.next] = "finished"
    /\ collect' = [collect EXCEPT !.got = @ \cup {collect.next}, !.next = @ + 1]
    /\ UNCHANGED exceptCollectVars

\* f.result(timeout=remaining) times out: the exception is swallowed and the
\* loop goes on to the next future.
ResultTimedOut ==
    /\ collect.kind = "result"
    /\ collect.step = "collecting"
    /\ collect.next <= MaxFeeds
    /\ collect.expired
    /\ collect.fetch[collect.next] = "pending"
    /\ collect' = [collect EXCEPT !.next = @ + 1]
    /\ UNCHANGED exceptCollectVars

\* Every future was asked: the with block is left.
ResultsOver ==
    /\ collect.kind = "result"
    /\ collect.step = "collecting"
    /\ collect.next > MaxFeeds
    /\ collect' = [collect EXCEPT !.step = "joining"]
    /\ UNCHANGED exceptCollectVars

\* ThreadPoolExecutor.__exit__ returns, every fetch having ended, and the
\* collection hands its articles to the refresh run; a raised TimeoutError
\* reaches _try_rss, which returns [] for it.
CollectionReturns ==
    /\ collect.step = "joining"
    /\ Finished(collect) = Feeds
    /\ collect' = [collect EXCEPT !.step = "returned",
                                  !.result = IF collect.raised THEN {} ELSE collect.got]
    /\ UNCHANGED exceptCollectVars

\* The refresh run goes on with what it was given.
RunGoesOn ==
    /\ collect.step = "returned"
    /\ collect' = [kind |-> "none", step |-> "idle",
                   fetch |-> [f \in Feeds |-> "pending"],
                   got |-> {}, next |-> 1, expired |-> FALSE, before |-> {},
                   raised |-> FALSE, result |-> {}]
    /\ UNCHANGED exceptCollectVars

(***************************************************************************)
(* The other components at rest.                                           *)
(***************************************************************************)

InitFilter ==
    /\ ScoreIdle
    /\ FilterIdle
    /\ StoreIdle
    /\ RefreshIdle
    /\ CacheIdle
    /\ LimiterIdle
    /\ AltIdle
    /\ LateIdle

NextFilter ==
    \/ \E title \in Titles, description \in Descriptions : Fetch(title, description)
    \/ \E openai_api_key \in {"", "sk"}, use_llm \in BOOLEAN :
           \E o \in OracleCases(article.title, article.description, openai_api_key,
                                use_llm, llmCount, today) :
               FilterArticle(openai_api_key, use_llm, o)
    \/ Release
    \/ NextDay
    \/ \E n \in 0..MaxBatch, openai_api_key \in {"", "sk"}, use_llm \in BOOLEAN :
           BatchStart(n, openai_api_key, use_llm)
    \/ \E title \in BatchTitles :
           \E o \in OracleCases(title, <<>>, batch.openai_api_key, batch.use_llm,
                                llmCount, today) :
               BatchStep(title, <<>>, o)
    \/ BatchEnd

SpecFilter == InitFilter /\ [][NextFilter]_vars

InitScore ==
    /\ events = {}
    /\ clock \in Clocks
    /\ cityCache = EmptyCache
    /\ run1 = NoRun
    /\ run2 = NoRun
    /\ FilterIdle
    /\ StoreIdle
    /\ RefreshIdle
    /\ CacheIdle
    /\ LimiterIdle
    /\ AltIdle
    /\ LateIdle

NextScore ==
    \/ \E id \in EventIds : InsertEvent(id)
    \/ ClearEvents
    \/ \E answer \in {"ouagadougou", NoResult} :
           GeocodeCity(<<"ouagadougou">>, "", answer)
    \/ \E sup \in Suppliers : ScoreFirst(sup)
    \/ ScoreAgain
    \/ Discard

SpecScore == InitScore /\ [][NextScore]_vars

\* The events the store's specification lets the feeds deliver.
StoreEventIds == {1, 5}

InitStore ==
    /\ events = {}
    /\ clock \in Clocks
    /\ cityCache = EmptyCache
    /\ run1 = NoRun
    /\ run2 = NoRun
    /\ FilterIdle
    /\ StoreIdle
    /\ RefreshIdle
    /\ CacheIdle
    /\ LimiterIdle
    /\ AltIdle
    /\ LateIdle

NextStore ==
    \/ \E df \in CsvFiles : ProcessUpload(df)
    \/ \E answer \in {None, "shenzhen", "houston"} : GeocodeSupplier(answer)
    \/ EngineStart
    \/ EngineStep
    \/ EngineEnd
    \/ Interrupt
    \/ \E id \in StoreEventIds : engine.state = "idle" /\ InsertEvent(id)
    \/ engine.state = "idle" /\ ClearEvents

SpecStore == InitStore /\ [][NextStore]_vars

InitCache ==
    /\ ScoreIdle
    /\ FilterIdle
    /\ StoreIdle
    /\ RefreshIdle
    /\ CacheIdle
    /\ LimiterIdle
    /\ AltIdle
    /\ LateIdle

NextCache ==
    \/ \E city \in CityArguments, country \in CountryArguments :
           ResolveCall(city, country)
    \/ \E found \in BOOLEAN : ResolveLookup(found)
    \/ ResolveReturn

SpecCache == InitCache /\ [][NextCache]_vars

InitLimiter ==
    /\ ScoreIdle
    /\ FilterIdle
    /\ StoreIdle
    /\ RefreshIdle
    /\ CacheIdle
    /\ LimiterIdle
    /\ AltIdle
    /\ LateIdle

NextLimiter ==
    \/ Tick
    \/ \E t \in CallerThreads, path \in {"city", "location"} : StartRequest(t, path)
    \/ \E t \in CallerThreads : Acquire(t)
    \/ \E t \in CallerThreads : Wake(t)
    \/ \E t \in CallerThreads : Stamp(t)
    \/ \E t \in CallerThreads : Request(t)

SpecLimiter == InitLimiter /\ [][NextLimiter]_vars

(***************************************************************************)
(* The alternatives module on its own.                                     *)
(***************************************************************************)
InitAlt ==
    /\ ScoreIdle
    /\ FilterIdle
    /\ StoreIdle
    /\ RefreshIdle
    /\ CacheIdle
    /\ LimiterIdle
    /\ AltIdle
    /\ LateIdle

NextAlt ==
    \/ RunApp
    \/ \E text \in CountdownTexts, pub \in PublishedTimes, clk \in AltClocks :
          DetectCountdown(text, pub, clk)
    \/ \E listed \in SUBSET Range(AltSuppliers) :
          \E at_risk \in listed,
             countdown \in {<<>>} \cup { detect_countdown(t, <<0>>, 0) : t \in UrgentTexts } :
             FindAlternatives(at_risk, SelectSeqBy(AltSuppliers, listed), countdown)

SpecAlt == InitAlt /\ [][NextAlt]_vars

(***************************************************************************)
(* The refresh cycle on its own.                                           *)
(***************************************************************************)
InitRefresh ==
    /\ ScoreIdle
    /\ FilterIdle
    /\ StoreIdle
    /\ RefreshIdle
    /\ CacheIdle
    /\ LimiterIdle
    /\ AltIdle
    /\ LateIdle

NextRefresh ==
    \/ \E clk \in RefreshDays : RefreshStart(clk)
    \/ \E title \in ArticleTitles, published_date \in DatesAt(cycle.clk) :
          SeedInsert(title, published_date)
    \/ SeedsDone
    \/ \E title \in ArticleTitles, published_date \in DatesAt(cycle.clk) :
          LiveInsert(title, published_date)
    \/ LiveDone
    \/ \E published_date \in {Dated(cycle.clk), Dated(cycle.clk - RETENTION_DAYS - 1)} :
          WeatherInsert(published_date)
    \/ RefreshEnd

SpecRefresh == InitRefresh /\ [][NextRefresh]_vars

InitCountry ==
    /\ ScoreIdle
    /\ FilterIdle
    /\ StoreIdle
    /\ RefreshIdle
    /\ CacheIdle
    /\ LimiterIdle
    /\ AltIdle
    /\ LateIdle

NextCountry ==
    \/ \E text \in Headlines : DetectCountry(text)
    \/ NextArticle

SpecCountry == InitCountry /\ [][NextCountry]_vars

InitSave ==
    /\ ScoreIdle
    /\ FilterIdle
    /\ StoreIdle
    /\ RefreshIdle
    /\ CacheIdle
    /\ LimiterIdle
    /\ AltIdle
    /\ LateIdle

NextSave ==
    \/ \E t \in SaveThreads, cache_key \in CityKeys : GeocodeMiss(t, cache_key)
    \/ \E t \in SaveThreads : StoreInCache(t)
    \/ \E t \in SaveThreads : SaveBegin(t)
    \/ \E t \in SaveThreads :
           \E outcome \in DumpOutcomes(saver.thread[t].seen, saver.cache) :
               SaveEnd(t, outcome)

SpecSave == InitSave /\ [][NextSave]_vars

InitCollect ==
    /\ ScoreIdle
    /\ FilterIdle
    /\ StoreIdle
    /\ RefreshIdle
    /\ CacheIdle
    /\ LimiterIdle
    /\ AltIdle
    /\ LateIdle

NextCollect ==
    \/ \E kind \in CollectorKinds : StartCollection(kind)
    \/ \E f \in Feeds : FetchFinishes(f)
    \/ DeadlineExpires
    \/ \E f \in Feeds : YieldCompleted(f)
    \/ AllYielded
    \/ TimeoutRaised
    \/ PollDone
    \/ PollOver
    \/ ResultReturned
    \/ ResultTimedOut
    \/ ResultsOver
    \/ CollectionReturns
    \/ RunGoesOn

SpecCollect == InitCollect /\ [][NextCollect]_vars

(***************************************************************************)
(* Properties of the scoring engine.  They read the record of a scoring    *)
(* call (run1, run2) against the inputs the call had: the stored events,   *)
(* the clock and the cache the call saw.                                   *)
(***************************************************************************)
RunSupplier == SupplierNamed(run1.supplier)

RunSignals ==
    get_forward_risk_signals(RunSupplier.country, RunSupplier.city, clock.month)

\* The per-event score of a stored event in score_supplier, in the breakdown.
RunScore(id) == ScoreEntry(RunSupplier, id, run1.cacheSeen, clock.hour)
RunPoints(id) == BreakdownEntry(RunSupplier, id, run1.cacheSeen, clock.hour)

RefSet(entries) == { entries[i].ref : i \in DOMAIN entries }

\* Exactly five entries are counted, and no entry left out has more points
\* than a counted one.
FiveHighestCounted(b) ==
    /\ Cardinality({ i \in DOMAIN b : b[i].counted }) = MAX_EVENTS_COUNTED
    /\ \A i, j \in DOMAIN b :
          (b[i].counted /\ ~ b[j].counted) => b[i].points >= b[j].points

\* Events, real and seasonal, whose per-event score is above zero.
PositiveCount ==
    Cardinality({ id \in events : RunPoints(id).event_score > 0 })
    + Cardinality({ k \in DOMAIN RunSignals :
                      BreakdownSeasonalEntry(RunSignals[k]).event_score > 0 })

\* Events, real and seasonal, whose per-event score is above the 0.1 point
\* that get_score_breakdown asks of an entry.
AboveFloorCount ==
    Cardinality({ id \in events : RunPoints(id).event_score > BREAKDOWN_MIN_POINTS })
    + Cardinality({ k \in DOMAIN RunSignals :
                      BreakdownSeasonalEntry(RunSignals[k]).event_score
                          > BREAKDOWN_MIN_POINTS })

\* C1 as stated: whenever more than 5 events score above zero, the breakdown
\* marks exactly 5 entries counted, the 5 highest by points, and the final
\* score is at most 100.
C1_AsStated ==
    run1.done =>
        /\ PositiveCount > MAX_EVENTS_COUNTED => FiveHighestCounted(run1.breakdown)
        /\ run1.score <= 100 * 10

\* C1: whenever more than 5 events, real or seasonal, have a per-event score
\* above 0.1 point (the events get_score_breakdown lists), the breakdown marks
\* exactly 5 entries counted, the 5 highest by points, and all others not
\* counted; the final score is at most 100 for every event set.
C1_TopKCap ==
    run1.done =>
        /\ run1.score <= 100 * 10
        /\ Len(run1.breakdown) > MAX_EVENTS_COUNTED
              => FiveHighestCounted(run1.breakdown)
        /\ events # {} => Len(run1.breakdown) = AboveFloorCount

C1_Witness ==
    /\ run1.done
    /\ Len(run1.breakdown) > MAX_EVENTS_COUNTED
    /\ AboveFloorCount > MAX_EVENTS_COUNTED
    /\ \E i \in DOMAIN run1.breakdown : ~ run1.breakdown[i].counted
    /\ run1.score > 0

\* Every candidate the aggregation is said to rank: the seasonal signals and
\* the stored events whose per-event score is not zero.
AllCandidates ==
    LET Positive(x) == x.score > 0
    IN  SelectSeq([k \in DOMAIN RunSignals |-> SeasonalEntry(RunSignals[k])], Positive)
        \o SelectSeq([i \in 1..Len(get_all_events(events)) |->
                          RunScore(get_all_events(events)[i])], Positive)

\* C2 as stated: the final score is min(round(S / 125 * 100, 1), 100) with S
\* the sum of the 5 largest per-event scores over all events, real and
\* seasonal, that score above zero.
C2_AsStated ==
    run1.done =>
        run1.score =
            Normalized(SumScores(Take(Seconds(SortPairsDesc(KeyedByScore(AllCandidates))),
                                      MAX_EVENTS_COUNTED)))

\* C3 as stated: a seasonal window that matches the supplier and the month
\* puts its synthetic event among the scored events for every event set, the
\* empty one included, and the score is above zero.
C3_AsStated ==
    run1.done =>
        \A k \in DOMAIN RunSignals :
            SeasonalEntry(RunSignals[k]).score > 0 =>
                /\ SeasonalEntry(RunSignals[k]).ref \in RefSet(run1.scored)
                /\ run1.score > 0

\* C4 as stated: an event whose text holds a forecast pattern has time
\* multiplier 2.0 whatever its published date is, the empty date included.
C4_AsStated ==
    run1.done =>
        \A id \in events :
            is_forecast(EventUniverse[id].title, EventUniverse[id].description) =>
                /\ RunScore(id).time_mult = 20
                /\ \A i \in DOMAIN run1.scored :
                      run1.scored[i].ref = id => run1.scored[i].time_mult = 20

\* An event with a parsable date more than 720 hours old and no forecast
\* pattern in its text.
PastCutoff(id) ==
    LET e == EventUniverse[id]
    IN  /\ _parse_published(e.published).ok
        /\ clock.hour - _parse_published(e.published).hour > 720
        /\ ~ is_forecast(e.title, e.description)

Persistent(id) ==
    AnyKwIn(HIGH_SIGNAL_PERSISTENT,
            FullText(EventUniverse[id].title, EventUniverse[id].description))

TierMiles ==
    { 0, ZONE_DIRECT * 10 - 1, ZONE_DIRECT * 10, ZONE_DIRECT * 10 + 1,
      ZONE_REGIONAL * 10, ZONE_REGIONAL * 10 + 1,
      ZONE_NATIONAL * 10, ZONE_NATIONAL * 10 + 1,
      ZONE_CONTINENT * 10, ZONE_CONTINENT * 10 + 1, ZONE_CONTINENT * 100 }

\* Two stored events alike in date, country and description.
AlikeButText(a, b) ==
    /\ a # b
    /\ EventUniverse[a].published = EventUniverse[b].published
    /\ EventUniverse[a].country = EventUniverse[b].country
    /\ EventUniverse[a].description = EventUniverse[b].description

\* Two scored entries alike in what the text gives the score (severity, time
\* multiplier), each located by a city.
AlikeButDistance(ra, rb) ==
    /\ ra.signal = rb.signal
    /\ ra.time_mult = rb.time_mult
    /\ ra.label = "miles"
    /\ rb.label = "miles"

\* The multipliers of the five tiers, never growing with the distance.
TiersNonIncreasing ==
    /\ distance_multiplier(ZONE_DIRECT * 10) = 1000
    /\ distance_multiplier(ZONE_REGIONAL * 10) = 600
    /\ distance_multiplier(ZONE_NATIONAL * 10) = 250
    /\ distance_multiplier(ZONE_CONTINENT * 10) = 80
    /\ distance_multiplier(ZONE_CONTINENT * 10 + 1) = 20
    /\ \A m1, m2 \in TierMiles :
          m1 <= m2 => distance_multiplier(m1) >= distance_multiplier(m2)

SameResult ==
    /\ run1.score = run2.score
    /\ run1.summary = run2.summary
    /\ run1.shown = run2.shown
    /\ run1.breakdown = run2.breakdown

ArticleText == FullText(article.title, article.description)

HasDisruption == \E kw \in DISRUPTION_KEYWORDS_L1 : KwIn(kw, ArticleText)

HasContext == \E kw \in SUPPLY_CONTEXT_KEYWORDS_L1 : KwIn(kw, ArticleText)

OnBlocklist == \E kw \in BLOCKLIST_TOPICS : KwIn(kw, ArticleText)

\* The call went past Layer 1: it was not rejected there.
PassedLayer1 == verdict.raised \/ verdict.layer_rejected # 1

\* C8: an article passes Layer 1 iff its text holds a disruption keyword and
\* a supply-chain context keyword; with only one of the two it is rejected
\* with rejected_at = 1.
C8_Conjunction ==
    verdict.called =>
        /\ PassedLayer1 <=> (HasDisruption /\ HasContext)
        /\ ~ (HasDisruption /\ HasContext) =>
              /\ ~ verdict.raised
              /\ ~ verdict.passes
              /\ verdict.layer_rejected = 1

C8_Witness ==
    /\ verdict.called
    /\ HasDisruption
    /\ ~ HasContext
    /\ ~ verdict.passes
    /\ verdict.layer_rejected = 1

ClearedLayers12 == HasDisruption /\ HasContext /\ ~ OnBlocklist

\* The oracle was to be asked and the daily budget was used up.
BudgetExhausted ==
    /\ article.use_llm
    /\ article.openai_api_key # ""
    /\ oracle = Unused
    /\ llmCount.count >= LLM_DAILY_BUDGET

\* The oracle call failed: no API key, an exception or timeout, a response
\* that is not JSON, an answer without is_disruption or without confidence,
\* or no budget left.
OracleFailed ==
    \/ article.openai_api_key = ""
    \/ oracle.kind \in {"exception", "non_json"}
    \/ oracle.kind = "answer" /\ (oracle.is = "missing" \/ oracle.conf = -1)
    \/ BudgetExhausted

\* C9 as stated: for an article that cleared Layers 1 and 2, every failure of
\* the oracle call ends in passes = true with a confidence below the
\* acceptance bar; the call does not drop the article.
C9_AsStated ==
    (verdict.called /\ ClearedLayers12 /\ OracleFailed) =>
        /\ ~ verdict.raised
        /\ verdict.passes
        /\ verdict.confidence < 70

\* The oracle answered with both keys, confidence a number.
OracleAnswered ==
    /\ oracle.kind = "answer"
    /\ oracle.is \in {"true", "false"}
    /\ oracle.conf >= 0

\* C10 as stated: when the oracle answers for an article that cleared Layers
\* 1 and 2, the article is accepted iff is_disruption is true and confidence
\* is at least 70; otherwise the call returns passes = false with
\* rejected_at = 3 and does not raise, and a batch counts it in rejected_l3.
C10_AsStated ==
    (verdict.called /\ ClearedLayers12 /\ OracleAnswered) =>
        /\ ~ verdict.raised
        /\ verdict.passes <=> (oracle.is = "true" /\ oracle.conf >= 70)
        /\ ~ verdict.passes => verdict.layer_rejected = 3
        /\ batch.state # "raised"
        /\ (batch.state \in {"running", "done"} /\ ~ verdict.passes)
              => batch.rejected_l3 >= 1

(***************************************************************************)
(* Properties of the supplier store.                                       *)
(***************************************************************************)
StoredRows == 1..Len(suppliers)

\* C11: in every state of the suppliers table, whatever uploads, geocoding
\* updates and scoring runs (complete, failed or stopped between two
\* suppliers) led to it, every row's risk_level is the classification of its
\* risk_score: High from 60, Medium from 26, else Low.
C11_LevelDerived ==
    \A i \in StoredRows :
        suppliers[i].risk_level = classify_risk_level(suppliers[i].risk_score)

\* A scoring run stopped after Acme and before Pacific: Acme is Medium on the
\* stored events, Pacific still has the score 0 of its upload, which no run
\* on these events in August gives it.
C11_Witness ==
    /\ engine = EngineIdle
    /\ events # {}
    /\ clock.month = 8
    /\ \E i, j \in StoredRows :
           /\ suppliers[i].name = "Acme"
           /\ suppliers[i].risk_level = "Medium"
           /\ suppliers[j].name = "Pacific"
           /\ suppliers[j].risk_score = 0

\* C12: scoring never fails: run_scoring_engine scores every row of the
\* table, rows without coordinates included, and never raises.
C12_AsStated == engine.state # "raised"

\* C18: the table never holds two rows of one supplier name, nor a row with
\* an empty Supplier Name or Country: such an upload is rejected.
C18_AsStated ==
    /\ \A i, j \in StoredRows : i # j => suppliers[i].name # suppliers[j].name
    /\ \A i \in StoredRows : suppliers[i].name # "" /\ suppliers[i].country # ""

C14_AsStated ==
    \A i, j \in DOMAIN issued : i < j => issued[j] - issued[i] >= 10

\* C15: detect_countdown uses the first pattern of the list that matches the
\* lowercased text, and only that one: its confidence, the number of its
\* capture group if it has one, else 2 for "imminent", 7 for "week" and 3
\* otherwise; the deadline is the publication time plus that many days; with
\* no matching pattern the result is None.  For "U.S. will decide within 10
\* days" published 2026-01-01T00:00:00Z: 10 days, deadline 2026-01-11,
\* confidence 1.0.
C15_AsStated ==
    alt.op = "detect_countdown" =>
        /\ alt.result.status = "returned"
        /\ LET text == alt.args.text
               Matching == { k \in COUNTDOWN_PATTERNS : CountdownMatch(k, text).matches }
               event == alt.result.value
           IN  IF Matching = {} THEN event = <<>>
               ELSE /\ event # <<>>
                    /\ \A k \in Matching : event[1].pattern <= k
                    /\ LET hit == CountdownMatch(event[1].pattern, text)
                       IN  /\ hit.matches
                           /\ event[1].base_confidence = hit.conf
                           /\ event[1].days_from_pub =
                                 IF hit.group >= 0 THEN hit.group
                                 ELSE DefaultDays(event[1].pattern)
                    /\ event[1].deadline_date =
                          event[1].published_date + HoursPerDay * event[1].days_from_pub
                    /\ (/\ text = <<"u.s.", "will", "decide", "within", "10", "days">>
                        /\ alt.args.pub = <<0>>)
                       => /\ event[1].days_from_pub = 10
                          /\ event[1].deadline_date = 10 * HoursPerDay
                          /\ event[1].base_confidence = 100

\* C16: find_alternatives returns at most 3 internal alternatives; none is
\* the at-risk supplier, each has a category related to the at-risk
\* supplier's, a risk level other than High and a score below 60.
C16_AsStated ==
    alt.op = "find_alternatives" =>
        /\ alt.result.status = "returned"
        /\ LET internal == alt.result.value.internal_alternatives
               at_risk == alt.args.at_risk
           IN  /\ Len(internal) <= 3
               /\ \A i \in 1..Len(internal) :
                     /\ internal[i].supplier_name # at_risk.supplier_name
                     /\ RelatedCategory(at_risk.category, internal[i].category)
                     /\ internal[i].risk_level # "High"
                     /\ internal[i].risk_score < 600

\* C17: find_alternatives returns at most 3 regional suggestions, in the
\* order of the curated list; none is the at-risk supplier's country and none
\* has a tier above the at-risk country's, a country outside the table
\* counting as tier 3.
C17_AsStated ==
    alt.op = "find_alternatives" =>
        /\ alt.result.status = "returned"
        /\ LET regional == alt.result.value.regional_suggestions
               at_risk == alt.args.at_risk
               listed == CATEGORY_ALTERNATIVES[CategoryKey(at_risk.category)].countries
               Place(c) == CHOOSE n \in 1..Len(listed) : listed[n] = c
           IN  /\ Len(regional) <= 3
               /\ \A i \in 1..Len(regional) :
                     /\ regional[i].country \in Range(listed)
                     /\ regional[i].country # at_risk.country
                     /\ REGION_RISK_TIER(regional[i].country)
                           <= REGION_RISK_TIER(at_risk.country)
               /\ \A i, j \in 1..Len(regional) :
                     i < j => Place(regional[i].country) < Place(regional[j].country)

\* C19: after a refresh cycle the event store holds no event published more
\* than 21 days before the refresh time: every insertion path enforces the
\* cutoff.
C19_AsStated ==
    (cycle.step = "idle" /\ cycle.ran) =>
        \A i \in 1..Len(eventRows) :
            eventRows[i].published_date.kind = "date" =>
                eventRows[i].published_date.day >= cycle.clk - RETENTION_DAYS

ClassifyStep ==
    /\ today' = today
    /\ article'.state = "classified"
    /\ article.state = "fetched" \/ batch.state = "running"

\* C21: the oracle invocations of one day never exceed the daily budget:
\* every invocation is counted and made only while the counter of the day
\* is below the budget; once the counter has reached the budget an article
\* that cleared Layers 1 and 2 passes without an oracle call; the first
\* budget check of a new day sets the counter back to 0.
C21_DailyBudget ==
    /\ [](llmCount.count <= LLM_DAILY_BUDGET)
    /\ [][ClassifyStep =>
            /\ oracle' # Unused =>
                  /\ BudgetChecked(llmCount, today).count < LLM_DAILY_BUDGET
                  /\ llmCount'.date = today
                  /\ llmCount'.count = BudgetChecked(llmCount, today).count + 1
            /\ oracle' = Unused => llmCount' \in {llmCount, BudgetChecked(llmCount, today)}
            /\ (llmCount.date = today /\ llmCount.count >= LLM_DAILY_BUDGET) =>
                  /\ oracle' = Unused
                  /\ llmCount' = llmCount
                  /\ ClearedLayers12' => (~ verdict'.raised /\ verdict'.passes)
            /\ (/\ llmCount.date # today
                /\ ClearedLayers12'
                /\ article'.use_llm
                /\ article'.openai_api_key # "") =>
                  /\ llmCount'.date = today
                  /\ llmCount'.count = IF oracle' # Unused THEN 1 ELSE 0]_vars

C21_Witness ==
    /\ verdict.called
    /\ ClearedLayers12
    /\ BudgetExhausted
    /\ llmCount.date = today
    /\ llmCount.count = LLM_DAILY_BUDGET
    /\ today > 1
    /\ verdict.passes

\* The stage factor of the claim, in hundredths.
StageFactor(days_remaining, days_from_pub) ==
    IF days_remaining > days_from_pub THEN 60
    ELSE IF days_remaining > 3 THEN 75
    ELSE IF days_remaining >= 0 THEN 95
    ELSE 40

\* C22: for every matched pattern with base weight b and every
\* days_remaining the confidence is b * f * 100 rounded to the nearest
\* integer, f being 0.60, 0.75, 0.95 or 0.40 by the stage of the deadline,
\* and lies in 0..100.
C22_AsStated ==
    (/\ alt.op = "detect_countdown"
     /\ \E k \in COUNTDOWN_PATTERNS : CountdownMatch(k, alt.args.text).matches) =>
        /\ alt.result.status = "returned"
        /\ alt.result.value # <<>>
        /\ LET event == alt.result.value[1]
           IN  /\ event.confidence \in 0..100
               /\ event.confidence =
                     RoundHalfEven(event.base_confidence
                                     * StageFactor(event.days_remaining,
                                                   event.days_from_pub), 100)

\* C26: internal alternatives are ordered by region risk tier first and by
\* risk score second: an alternative in a strictly lower tier comes before
\* one in a higher tier whatever their scores, and within one tier the lower
\* score comes first.
C26_AsStated ==
    alt.op = "find_alternatives" =>
        /\ alt.result.status = "returned"
        /\ LET internal == alt.result.value.internal_alternatives
           IN  \A i, j \in 1..Len(internal) :
                  i < j =>
                     \/ internal[i].risk_tier < internal[j].risk_tier
                     \/ /\ internal[i].risk_tier = internal[j].risk_tier
                        /\ internal[i].risk_score <= internal[j].risk_score

\* C27: when the category of the at-risk supplier matches no key of the
\* curated table, an empty category included, the regional suggestions are
\* built from the "default" list.
C27_AsStated ==
    alt.op = "find_alternatives" =>
        /\ alt.result.status = "returned"
        /\ LET at_risk == alt.args.at_risk
               Named == { k \in 1..(Len(CATEGORY_ALTERNATIVES) - 1) :
                            /\ at_risk.category # <<>>
                            /\ \/ CategoryIn(CATEGORY_ALTERNATIVES[k].key, at_risk.category)
                               \/ CategoryIn(at_risk.category, CATEGORY_ALTERNATIVES[k].key) }
               default == CATEGORY_ALTERNATIVES[Len(CATEGORY_ALTERNATIVES)].countries
               Fit == { n \in 1..Len(default) :
                          /\ default[n] # at_risk.country
                          /\ REGION_RISK_TIER(default[n]) <= REGION_RISK_TIER(at_risk.country) }
               regional == alt.result.value.regional_suggestions
           IN  Named = {} =>
                  /\ Len(regional) = Min(3, Cardinality(Fit))
                  /\ \A i \in 1..Len(regional) :
                        \E n \in Fit : /\ default[n] = regional[i].country
                                       /\ Cardinality({ m \in Fit : m < n }) = i - 1

\* The window of the calendar that the contract includes for a supplier in a
\* month: country listed, city (when the window lists cities) a substring of
\* a listed city or the other way round, month active.
WindowDue(k, sup, month) ==
    LET window == SEASONAL_RISK_CALENDAR[k]
    IN  /\ LowerCountry(sup.country) \in window.countries
        /\ window.hasCities =>
              \E c \in window.cities : KwIn(c, AsText(sup.city)) \/ KwIn(sup.city, AsText(c))
        /\ month \in window.months

\* The seasonal weight the contract gives window k in a month, as the pair
\* <<numerator, denominator>> of the configured weight.
WeightShare(k, month) ==
    IF month \in SEASONAL_RISK_CALENDAR[k].peak_months THEN <<1, 1>> ELSE <<1, 2>>

\* C24: a scoring call on a non-empty events table carries a synthetic event
\* for a calendar window iff the supplier's country is in the window's
\* countries, the supplier's city substring-matches one of the window's cities
\* (when it lists cities) and the current month is active; its distance
\* multiplier is the configured weight in a peak month and exactly half of it
\* otherwise, in score_supplier and in get_score_breakdown alike.
C24_SeasonalInclusion ==
    (run1.done /\ events # {}) =>
        \A k \in 1..Len(SEASONAL_RISK_CALENDAR) :
            LET sup   == SupplierNamed(run1.supplier)
                share == WeightShare(k, clock.month)
            IN  /\ WindowDue(k, sup, clock.month)
                       <=> \E e \in Range(run1.scored) : e.ref = -k
                /\ WindowDue(k, sup, clock.month)
                       <=> \E b \in Range(run1.breakdown) : b.ref = -k
                /\ \A e \in Range(run1.scored) :
                      e.ref = -k =>
                          /\ e.label = "seasonal"
                          /\ e.dist_mult * share[2] = SEASONAL_RISK_CALENDAR[k].weight * share[1]
                /\ \A b \in Range(run1.breakdown) :
                      b.ref = -k =>
                          /\ b.proximity = "seasonal"
                          /\ b.dist_mult * share[2] = SEASONAL_RISK_CALENDAR[k].weight * share[1]

\* Pacific (Philippines) scored in August: the typhoon window at its peak
\* weight and the seismic window at half weight, the cyclone window left out.
C24_Witness ==
    /\ run1.done
    /\ events # {}
    /\ run1.supplier = "Pacific"
    /\ clock.month = 8
    /\ \E e \in Range(run1.scored) : e.ref = -1 /\ e.dist_mult = 700
    /\ \E e \in Range(run1.scored) : e.ref = -6 /\ e.dist_mult = 150
    /\ \A e \in Range(run1.scored) : e.ref # -3

\* The distance multiplier (1/1000) the contract gives an event located by
\* country only.
NationalImpactRule(sup, e, signal) ==
    IF LowerCountry(e.country) = LowerCountry(sup.country)
    THEN (IF signal = "high" THEN Min((600 * 14) \div 10, 1000) ELSE 600)
    ELSE IF e.country \in {"Unknown", "Global", ""} THEN 10
    ELSE IF get_continent(e.country) # None
            /\ get_continent(e.country) = get_continent(sup.country) THEN 50
    ELSE 20

\* C25: in score_supplier and in get_score_breakdown alike, an event without
\* a coordinate-based distance gets distance multiplier 0.60 in the
\* supplier's country (min(0.60 * 1.4, 1.0) when its severity is high), 0.05
\* in another country of the same continent, 0.02 on another continent and
\* 0.01 for an Unknown, Global or empty country.
C25_AsStated ==
    run1.done =>
        LET sup == SupplierNamed(run1.supplier)
        IN  /\ \A e \in Range(run1.scored) :
                  (e.ref > 0 /\ e.label # "miles") =>
                      e.dist_mult = NationalImpactRule(sup, EventUniverse[e.ref], e.signal)
            /\ \A b \in Range(run1.breakdown) :
                  (b.ref > 0 /\ b.proximity # "miles") =>
                      b.dist_mult = NationalImpactRule(sup, EventUniverse[b.ref], b.signal)

\* The points (1/100) of the entries a breakdown marks counted.
RECURSIVE CountedPoints(_)
CountedPoints(entries) ==
    IF entries = <<>> THEN 0
    ELSE (IF Head(entries).counted THEN Head(entries).points ELSE 0)
         + CountedPoints(Tail(entries))

\* C30: the entries get_score_breakdown marks counted are exactly the events
\* score_supplier summed, with the same distance and time multipliers, the
\* same signal and the same points (to the breakdown's two decimals), so the
\* counted points normalised as the score is normalised give the score.
C30_AsStated ==
    run1.done =>
        /\ { b.ref : b \in { x \in Range(run1.breakdown) : x.counted } }
               = { e.ref : e \in Range(run1.top) }
        /\ \A b \in Range(run1.breakdown) : \A e \in Range(run1.top) :
              (b.counted /\ b.ref = e.ref) =>
                  /\ b.dist_mult = e.dist_mult
                  /\ b.time_mult = e.time_mult
                  /\ b.signal = e.signal
                  /\ b.points = RoundHalfEven(e.score, PointUnit \div 100)
        /\ Normalized(CountedPoints(run1.breakdown) * (PointUnit \div 100)) = run1.score

\* The entries of a table whose name occurs in the text.
NamedIn(table, text) == { k \in 1..Len(table) : KwIn(table[k].name, text) }

\* C23: detect_country_in_text answers "Unknown" for an empty text; else, if
\* port cities occur in the text, the country of the longest city name that
\* occurs; else the country of a country name or alias of at least 4
\* characters that occurs; else "Unknown".
C23_AsStated ==
    detect.state = "done" =>
        LET cities == NamedIn(PORT_CITY_MAP, detect.text)
            names  == { k \in NamedIn(COUNTRY_MAP, detect.text) :
                          NameLen(COUNTRY_MAP[k].name) >= 4 }
        IN  IF detect.text = <<>> THEN detect.country = "Unknown"
            ELSE IF cities # {}
            THEN \E k \in cities :
                    /\ \A j \in cities :
                          NameLen(PORT_CITY_MAP[j].name) <= NameLen(PORT_CITY_MAP[k].name)
                    /\ detect.country = PORT_CITY_MAP[k].country
            ELSE IF names # {}
            THEN \E k \in names : detect.country = COUNTRY_MAP[k].country
            ELSE detect.country = "Unknown"

\* C28: the geocoder cache is written under one mutex: the in-memory map
\* does not change while a thread is serializing it, no flush raises or is
\* lost, and once every caller has returned the cache file holds the
\* in-memory map.
C28_AsStated ==
    /\ \A t \in SaveThreads :
          saver.thread[t].at = "dumping" => saver.cache = saver.thread[t].seen
    /\ ~ saver.failed
    /\ (\A t \in SaveThreads : saver.thread[t].at = "idle") => saver.file = Whole(saver.cache)

\* C29: once the deadline of a collection has expired with fetches pending,
\* the collection is not found waiting for a pending fetch, and what it
\* returns holds the articles of every fetch that had finished before the
\* deadline.
C29_AsStated ==
    /\ (collect.step = "joining" /\ collect.expired) => Finished(collect) = Feeds
    /\ (collect.step = "returned" /\ collect.expired) => collect.before \subseteq collect.result

====
